---- MODULE Spec2Model ----
(***************************************************************************)
(* Knowledge-graph notes: the note store helpers and tool handlers of      *)
(* src/index.ts, the connection inference (server and widget copies) and   *)
(* the force simulation hook useForceGraph.                                *)
(*                                                                         *)
(* A JavaScript string is modelled as a sequence of one-character strings, *)
(* so that lower-casing, trimming, splitting, substring tests and string   *)
(* building are computed character by character.  A JavaScript number that *)
(* is a ratio of small integers is modelled as an exact fraction           *)
(* <<numerator, denominator>> in lowest terms.                             *)
(***************************************************************************)
EXTENDS Integers, Sequences, FiniteSets, TLC

Range(s) == {s[i] : i \in 1..Len(s)}

(***************************************************************************)
(* Strings                                                                 *)
(***************************************************************************)
LowerLetters ==
  <<"a", "b", "c", "d", "e", "f", "g", "h", "i", "j", "k", "l", "m", "n", "o", "p", "q", "r", "s", "t", "u", "v", "w", "x", "y", "z">>

UpperLetters ==
  <<"A", "B", "C", "D", "E", "F", "G", "H", "I", "J", "K", "L", "M", "N", "O", "P", "Q", "R", "S", "T", "U", "V", "W", "X", "Y", "Z">>

Digits ==
  {"0", "1", "2", "3", "4", "5", "6", "7", "8", "9"}

WhiteSpace == {" ", "\t", "\n"}

UpperSet == Range(UpperLetters)

\* the regular expression class \w: [A-Za-z0-9_]
WordChars == Range(LowerLetters) \cup Range(UpperLetters) \cup Digits \cup {"_"}

\* String.prototype.toLowerCase, one character
toLowerCaseChar(c) ==
  IF c \in UpperSet
  THEN LowerLetters[CHOOSE i \in 1..Len(UpperLetters) : UpperLetters[i] = c]
  ELSE c

toLowerCase(s) == [i \in 1..Len(s) |-> toLowerCaseChar(s[i])]

isWordChar(c) == c \in WordChars

\* String.prototype.trim
RECURSIVE trimStart(_)
trimStart(s) == IF s # <<>> /\ Head(s) \in WhiteSpace THEN trimStart(Tail(s)) ELSE s

RECURSIVE trimEnd(_)
trimEnd(s) ==
  IF s # <<>> /\ s[Len(s)] \in WhiteSpace THEN trimEnd(SubSeq(s, 1, Len(s) - 1)) ELSE s

trim(s) == trimEnd(trimStart(s))

\* s.replace(/^#/, "")
stripLeadingHash(s) == IF s # <<>> /\ Head(s) = "#" THEN Tail(s) ELSE s

\* String.prototype.includes: sub occurs in s as a contiguous substring
strIncludes(s, sub) ==
  \E k \in 0..(Len(s) - Len(sub)) : SubSeq(s, k + 1, k + Len(sub)) = sub

\* Array.prototype.includes / Set.prototype.has on an insertion-ordered set
includes(arr, x) == \E i \in 1..Len(arr) : arr[i] = x

\* Array.prototype.join
RECURSIVE join(_, _)
join(arr, sep) ==
  IF arr = <<>> THEN <<>>
  ELSE IF Len(arr) = 1 THEN arr[1]
  ELSE arr[1] \o sep \o join(Tail(arr), sep)

\* the numbers of a set in ascending order
ascending(S) ==
  [k \in 1..Cardinality(S) |-> CHOOSE p \in S : Cardinality({q \in S : q < p}) = k - 1]

\* new Set(arr), spread in insertion order: first occurrences, in order
newSet(arr) ==
  LET firsts == ascending({i \in 1..Len(arr) : \A k \in 1..(i - 1) : arr[k] # arr[i]})
  IN [k \in 1..Len(firsts) |-> arr[firsts[k]]]

\* str.split(/\W+/): the pieces between maximal runs of non-word characters.
\* A piece starts at the start of the string and after every such run, and
\* extends over the word characters that follow (none at the end of the
\* string or when the string starts with a non-word character).
pieceStarts(s) ==
  {p \in 1..(Len(s) + 1) :
     \/ p = 1
     \/ /\ ~isWordChar(s[p - 1])
        /\ (p = Len(s) + 1 \/ isWordChar(s[p]))}

pieceFrom(s, p) ==
  LET stops == {e \in p..Len(s) : ~isWordChar(s[e])}
      end == IF stops = {} THEN Len(s)
             ELSE (CHOOSE e \in stops : \A q \in stops : e <= q) - 1
  IN SubSeq(s, p, end)

splitNonWord(s) ==
  LET starts == ascending(pieceStarts(s))
  IN [k \in 1..Len(starts) |-> pieceFrom(s, starts[k])]

(***************************************************************************)
(* Numbers: exact fractions <<n, d>> with n >= 0, d > 0, in lowest terms   *)
(***************************************************************************)
RECURSIVE GCD(_, _)
GCD(m, n) == IF n = 0 THEN m ELSE GCD(n, m % n)

Frac(n, d) == LET g == GCD(n, d) IN <<n \div g, d \div g>>

fracLE(x, y) == x[1] * y[2] <= y[1] * x[2]

fracLT(x, y) == x[1] * y[2] < y[1] * x[2]

mathMax(x, y) == IF fracLE(x, y) THEN y ELSE x

mathMin(x, y) == IF fracLE(x, y) THEN x ELSE y

fracTimes(x, k) == Frac(x[1] * k, x[2])

(***************************************************************************)
(* Keyword extraction                                                      *)
(***************************************************************************)
STOP_WORDS ==
  {
    <<"t", "h", "e">>, <<"a", "n", "d">>, <<"t", "h", "a", "t">>,
    <<"t", "h", "i", "s">>, <<"h", "a", "v", "e">>, <<"f", "o", "r">>,
    <<"n", "o", "t">>, <<"w", "i", "t", "h">>, <<"y", "o", "u">>,
    <<"a", "r", "e">>, <<"f", "r", "o", "m">>, <<"t", "h", "e", "y">>,
    <<"w", "i", "l", "l">>, <<"y", "o", "u", "r">>, <<"w", "h", "a", "t">>,
    <<"a", "b", "o", "u", "t">>, <<"w", "h", "i", "c", "h">>, <<"w", "h", "e", "n">>,
    <<"t", "h", "e", "r", "e">>, <<"b", "e", "e", "n">>, <<"m", "o", "r", "e">>,
    <<"a", "l", "s", "o">>, <<"i", "n", "t", "o">>, <<"s", "o", "m", "e">>,
    <<"t", "h", "a", "n">>, <<"t", "h", "e", "n">>, <<"t", "h", "e", "m">>,
    <<"t", "h", "e", "s", "e">>, <<"i", "t", "s">>, <<"o", "u", "r">>,
    <<"o", "u", "t">>, <<"c", "a", "n">>, <<"a", "l", "l">>,
    <<"w", "a", "s">>, <<"b", "u", "t">>, <<"h", "a", "s">>,
    <<"h", "a", "d">>, <<"h", "i", "s">>, <<"h", "e", "r">>,
    <<"s", "h", "e">>, <<"h", "i", "m">>, <<"w", "e", "r", "e">>,
    <<"s", "a", "i", "d">>, <<"e", "a", "c", "h">>, <<"h", "o", "w">>,
    <<"t", "h", "e", "i", "r">>, <<"w", "o", "u", "l", "d">>
  }

\* a filter that keeps words of three characters
isKeyword_fromThree(w) == Len(w) >= 3 /\ w \notin STOP_WORDS

\* filter predicate of extractKeywords
isKeyword(w) == Len(w) > 3 /\ w \notin STOP_WORDS

extractKeywords(str) ==
  newSet(SelectSeq(splitNonWord(toLowerCase(str)), isKeyword))

(***************************************************************************)
(* Tag normalisation of the add-note handler                               *)
(***************************************************************************)
cleanTag(t) == trim(stripLeadingHash(toLowerCase(t)))

\* .filter(Boolean) on strings: the empty string is falsy
isTruthyString(s) == s # <<>>

cleanTags(tags) ==
  SelectSeq([i \in 1..Len(tags) |-> cleanTag(tags[i])], isTruthyString)

\* cleanTags of the widget
widgetCleanTags(raw) ==
  SelectSeq([i \in 1..Len(raw) |-> trim(stripLeadingHash(toLowerCase(raw[i])))], isTruthyString)

(***************************************************************************)
(* Connection inference: computeConnections of src/index.ts                *)
(* A note is [id, title, content, tags]; ids are integers ordered as the   *)
(* id strings are by Array.prototype.sort.                                 *)
(***************************************************************************)
STR_SHARED_TAGS == <<"S", "h", "a", "r", "e", "d", " ", "t", "a", "g", "s", ":", " ">>

STR_RELATED_TAGS == <<"R", "e", "l", "a", "t", "e", "d", " ", "t", "a", "g", "s">>

STR_RELATED_CONCEPTS == <<"R", "e", "l", "a", "t", "e", "d", " ", "c", "o", "n", "c", "e", "p", "t", "s", ":", " ">>

STR_COMMA == <<",", " ">>

\* [a.id, b.id].sort().join("~")
pairKey(a, b) == IF a.id <= b.id THEN <<a.id, b.id>> ELSE <<b.id, a.id>>

\* a.tags.filter((t) => b.tags.includes(t))
sharedTagsOf(a, b) == SelectSeq(a.tags, LAMBDA t : includes(b.tags, t))

\* new Set([...a.tags, ...b.tags]).size
tagUnionSize(a, b) == Len(newSet(a.tags \o b.tags))

hashTags(tags) == [i \in 1..Len(tags) |-> <<"#">> \o tags[i]]

\* tier 1: exact tag overlap
sharedTagConnection(a, b) ==
  [source   |-> a.id,
   target   |-> b.id,
   strength |-> mathMax(Frac(Len(sharedTagsOf(a, b)), tagUnionSize(a, b)), Frac(4, 10)),
   reason   |-> STR_SHARED_TAGS \o join(hashTags(sharedTagsOf(a, b)), STR_COMMA)]

\* a.tags.find((at) => b.tags.some((bt) => at.includes(bt) || bt.includes(at))):
\* <<>> when nothing is found (undefined), else <<the first such tag of a>>
tagSubMatchOf(a, b) ==
  LET hits == {i \in 1..Len(a.tags) :
                 \E k \in 1..Len(b.tags) :
                    \/ strIncludes(a.tags[i], b.tags[k])
                    \/ strIncludes(b.tags[k], a.tags[i])}
  IN IF hits = {} THEN <<>>
     ELSE <<a.tags[CHOOSE i \in hits : \A h \in hits : i <= h]>>

\* if (tagSubMatch): undefined and the empty string are falsy
isTruthyFind(found) == found # <<>> /\ found[1] # <<>>

\* tier 2: tag substring match
relatedTagConnection(a, b) ==
  [source   |-> a.id,
   target   |-> b.id,
   strength |-> Frac(35, 100),
   reason   |-> STR_RELATED_TAGS]

noteText(n) == n.title \o <<" ">> \o n.content

\* [...aWords].filter((w) => bWords.has(w))
sharedWordsOf(aWords, bWords) == SelectSeq(aWords, LAMBDA w : includes(bWords, w))

\* new Set([...aWords, ...bWords]).size || 1
wordUnionSize(aWords, bWords) ==
  LET size == Len(newSet(aWords \o bWords))
  IN IF size = 0 THEN 1 ELSE size

\* shared.some((w) => titleWords.has(w) || bTitleWords.has(w))
titleMatchOf(shared, titleWords, bTitleWords) ==
  \E i \in 1..Len(shared) :
     includes(titleWords, shared[i]) \/ includes(bTitleWords, shared[i])

\* shared.slice(0, 3)
firstThree(arr) == SubSeq(arr, 1, IF Len(arr) < 3 THEN Len(arr) ELSE 3)

\* tier 3 without the title match
keywordConnection_noTitleMatch(a, b) ==
  LET aWords == extractKeywords(noteText(a))
      bWords == extractKeywords(noteText(b))
      shared == sharedWordsOf(aWords, bWords)
      jaccard == Frac(Len(shared), wordUnionSize(aWords, bWords))
  IN IF Len(shared) >= 1 /\ fracLE(Frac(3, 100), jaccard)
     THEN <<[source   |-> a.id,
             target   |-> b.id,
             strength |-> mathMin(fracTimes(jaccard, 6), Frac(9, 10)),
             reason   |-> STR_RELATED_CONCEPTS \o join(firstThree(shared), STR_COMMA)]>>
     ELSE <<>>

\* tier 3: keyword overlap; the connections it sets (none or one)
keywordConnection(a, b) ==
  LET aWords == extractKeywords(noteText(a))
      bWords == extractKeywords(noteText(b))
      shared == sharedWordsOf(aWords, bWords)
      jaccard == Frac(Len(shared), wordUnionSize(aWords, bWords))
      titleMatch == titleMatchOf(shared, extractKeywords(a.title), extractKeywords(b.title))
  IN IF Len(shared) >= 1
        /\ (fracLE(Frac(3, 100), jaccard) \/ (titleMatch /\ Len(shared) >= 1))
     THEN <<[source   |-> a.id,
             target   |-> b.id,
             strength |-> mathMin(fracTimes(jaccard, 6), Frac(9, 10)),
             reason   |-> STR_RELATED_CONCEPTS \o join(firstThree(shared), STR_COMMA)]>>
     ELSE <<>>

\* connectionOfPair with the substring test made before the equality test
connectionOfPair_substringFirst(a, b) ==
  IF isTruthyFind(tagSubMatchOf(a, b)) THEN <<relatedTagConnection(a, b)>>
  ELSE IF Len(sharedTagsOf(a, b)) > 0 THEN <<sharedTagConnection(a, b)>>
  ELSE keywordConnection(a, b)

\* the body of the inner loop for the pair (a, b): the connections it sets
\* (none or one), first matching tier wins
connectionOfPair(a, b) ==
  IF Len(sharedTagsOf(a, b)) > 0 THEN <<sharedTagConnection(a, b)>>
  ELSE IF isTruthyFind(tagSubMatchOf(a, b)) THEN <<relatedTagConnection(a, b)>>
  ELSE keywordConnection(a, b)

\* innerStart with the inner loop starting at i itself
innerStart_fromSelf(i) == i

\* first value of j in the inner loop: for (let j = i + 1; ...)
innerStart(i) == i + 1

\* connectionMap.has(key)
mapHas(map, key) == \E e \in 1..Len(map) : map[e].key = key

\* the two nested loops, from position (i, j) on; map is the insertion-ordered
\* connectionMap as a sequence of [key, value] entries
RECURSIVE connectionLoop(_, _, _, _)
connectionLoop(allNotes, i, j, map) ==
  IF i > Len(allNotes) THEN map
  ELSE IF j > Len(allNotes) THEN connectionLoop(allNotes, i + 1, innerStart(i + 1), map)
  ELSE LET a == allNotes[i]
           b == allNotes[j]
           key == pairKey(a, b)
           found == IF mapHas(map, key) THEN <<>> ELSE connectionOfPair(a, b)
       IN connectionLoop(allNotes, i, j + 1,
            IF found = <<>> THEN map ELSE Append(map, [key |-> key, value |-> found[1]]))

\* [...connectionMap.values()]
computeConnections(allNotes) ==
  LET map == connectionLoop(allNotes, 1, innerStart(1), <<>>)
  IN [e \in 1..Len(map) |-> map[e].value]

(***************************************************************************)
(* Connection inference of the widget: computeConnectionsClient            *)
(***************************************************************************)
CLIENT_STOP_WORDS ==
  {
    <<"t", "h", "e">>, <<"a", "n", "d">>, <<"t", "h", "a", "t">>,
    <<"t", "h", "i", "s">>, <<"h", "a", "v", "e">>, <<"f", "o", "r">>,
    <<"n", "o", "t">>, <<"w", "i", "t", "h">>, <<"y", "o", "u">>,
    <<"a", "r", "e">>, <<"f", "r", "o", "m">>, <<"t", "h", "e", "y">>,
    <<"w", "i", "l", "l">>, <<"y", "o", "u", "r">>, <<"w", "h", "a", "t">>,
    <<"a", "b", "o", "u", "t">>, <<"w", "h", "i", "c", "h">>, <<"w", "h", "e", "n">>,
    <<"t", "h", "e", "r", "e">>, <<"b", "e", "e", "n">>, <<"m", "o", "r", "e">>,
    <<"a", "l", "s", "o">>, <<"i", "n", "t", "o">>, <<"s", "o", "m", "e">>,
    <<"t", "h", "a", "n">>, <<"t", "h", "e", "n">>, <<"t", "h", "e", "m">>,
    <<"t", "h", "e", "s", "e">>, <<"i", "t", "s">>, <<"o", "u", "r">>,
    <<"o", "u", "t">>, <<"c", "a", "n">>, <<"a", "l", "l">>,
    <<"w", "a", "s">>, <<"b", "u", "t">>, <<"h", "a", "s">>,
    <<"h", "a", "d">>, <<"h", "i", "s">>, <<"h", "e", "r">>,
    <<"s", "h", "e">>, <<"h", "i", "m">>, <<"w", "e", "r", "e">>,
    <<"s", "a", "i", "d">>, <<"e", "a", "c", "h">>, <<"h", "o", "w">>,
    <<"t", "h", "e", "i", "r">>, <<"w", "o", "u", "l", "d">>
  }

\* extractKeywords of the widget
clientExtractKeywords(str) ==
  newSet(SelectSeq(splitNonWord(toLowerCase(str)),
                   LAMBDA w : Len(w) > 3 /\ w \notin CLIENT_STOP_WORDS))

\* tier 1 of computeConnectionsClient
clientSharedTagConnection(a, b) ==
  LET sharedTags == SelectSeq(a.tags, LAMBDA t : includes(b.tags, t))
      union == Len(newSet(a.tags \o b.tags))
  IN [source   |-> a.id,
      target   |-> b.id,
      strength |-> mathMax(Frac(Len(sharedTags), union), Frac(4, 10)),
      reason   |-> STR_SHARED_TAGS \o join(hashTags(sharedTags), STR_COMMA)]

\* tier 3 of computeConnectionsClient; extractKeywords(b.title) is evaluated
\* inside shared.some
clientKeywordConnection(a, b) ==
  LET aWords == clientExtractKeywords(noteText(a))
      bWords == clientExtractKeywords(noteText(b))
      shared == SelectSeq(aWords, LAMBDA w : includes(bWords, w))
      size == Len(newSet(aWords \o bWords))
      union == IF size = 0 THEN 1 ELSE size
      jaccard == Frac(Len(shared), union)
      titleWords == clientExtractKeywords(a.title)
      titleMatch == \E i \in 1..Len(shared) :
                       \/ includes(titleWords, shared[i])
                       \/ includes(clientExtractKeywords(b.title), shared[i])
  IN IF Len(shared) >= 1
        /\ (fracLE(Frac(3, 100), jaccard) \/ (titleMatch /\ Len(shared) >= 1))
     THEN <<[source   |-> a.id,
             target   |-> b.id,
             strength |-> mathMin(fracTimes(jaccard, 6), Frac(9, 10)),
             reason   |-> STR_RELATED_CONCEPTS \o join(firstThree(shared), STR_COMMA)]>>
     ELSE <<>>

\* the loop body of the widget with the substring test made first
clientConnectionOfPair_substringFirst(a, b) ==
  IF isTruthyFind(tagSubMatchOf(a, b))
  THEN <<[source |-> a.id, target |-> b.id, strength |-> Frac(35, 100),
          reason |-> STR_RELATED_TAGS]>>
  ELSE IF Len(SelectSeq(a.tags, LAMBDA t : includes(b.tags, t))) > 0
  THEN <<clientSharedTagConnection(a, b)>>
  ELSE clientKeywordConnection(a, b)

\* the loop body of computeConnectionsClient for the pair (a, b)
clientConnectionOfPair(a, b) ==
  IF Len(SelectSeq(a.tags, LAMBDA t : includes(b.tags, t))) > 0
  THEN <<clientSharedTagConnection(a, b)>>
  ELSE IF isTruthyFind(tagSubMatchOf(a, b))
  THEN <<[source |-> a.id, target |-> b.id, strength |-> Frac(35, 100),
          reason |-> STR_RELATED_TAGS]>>
  ELSE clientKeywordConnection(a, b)

\* the two nested loops of computeConnectionsClient, from position (i, j) on
RECURSIVE clientConnectionLoop(_, _, _, _)
clientConnectionLoop(allNotes, i, j, map) ==
  IF i > Len(allNotes) THEN map
  ELSE IF j > Len(allNotes) THEN clientConnectionLoop(allNotes, i + 1, i + 2, map)
  ELSE LET a == allNotes[i]
           b == allNotes[j]
           key == pairKey(a, b)
           found == IF mapHas(map, key) THEN <<>> ELSE clientConnectionOfPair(a, b)
       IN clientConnectionLoop(allNotes, i, j + 1,
            IF found = <<>> THEN map ELSE Append(map, [key |-> key, value |-> found[1]]))

computeConnectionsClient(allNotes) ==
  LET map == clientConnectionLoop(allNotes, 1, 2, <<>>)
  IN [e \in 1..Len(map) |-> map[e].value]

(***************************************************************************)
(* Inputs                                                                  *)
(***************************************************************************)
T_INTRO == <<"I", "n", "t", "r", "o", " ", "t", "o", " ", "A", "I">>

T_QUANTUM == <<"Q", "u", "a", "n", "t", "u", "m", " ", "c", "o", "m", "p", "u", "t", "i", "n", "g", " ", "b", "a", "s", "i", "c", "s">>

T_BASICS == <<"B", "a", "s", "i", "c", "s", " ", "o", "f", " ", "q", "u", "a", "n", "t", "u", "m", " ", "a", "l", "g", "o", "r", "i", "t", "h", "m", "s">>

C_SUPER == <<"s", "u", "p", "e", "r", "p", "o", "s", "i", "t", "i", "o", "n", " ", "q", "u", "b", "i", "t", "s">>

C_GATES == <<"q", "u", "b", "i", "t", "s", " ", "g", "a", "t", "e", "s">>

C_PLAIN == <<"w", "i", "t", "h", " ", "t", "h", "e", " ", "c", "a", "t">>

Titles == {T_INTRO, T_QUANTUM, T_BASICS}

Contents == {C_SUPER, C_GATES, C_PLAIN}

\* tag lists as a caller of add-note may pass them (before normalisation)
RawTagLists ==
  { <<>>,
    <<<<"a", "i">>>>,
    <<<<"a", "i">>, <<"m", "l">>>>,
    <<<<"m", "l">>, <<"a", "i">>>>,
    <<<<"A", "I">>, <<"#", "a", "i">>>>,
    <<<<"#", "m">>>>,
    <<<<"d", "b">>>> }

\* the note object built by the add-note handler
newNote(id, title, content, tags, now) ==
  [id |-> id, title |-> title, content |-> content,
   tags |-> cleanTags(tags), createdAt |-> now]

\* what a caller passes to add-note: title, content, tags
ServerInputs ==
  { [title |-> <<"N", "e", "t", "s">>, content |-> <<"d", "e", "e", "p", " ", "n", "e", "t", "s">>, tags |-> <<<<"a", "i">>, <<"m", "l">>>>],
    [title |-> <<"Q", "u", "b", "i", "t">>, content |-> <<"g", "a", "t", "e", "s">>, tags |-> <<<<"#", "m">>>>],
    [title |-> <<"G", "a", "t", "e", "s">>, content |-> <<"q", "u", "b", "i", "t">>, tags |-> <<>>] }

\* queries passed to search-notes
SearchQueries == {<<"Q", "u">>}

\* most notes ever created in one behaviour
MaxNotes == 3

\* longest cache a delete-note behaviour starts from
MaxList == 4

(***************************************************************************)
(* Storage helpers of src/index.ts.  The Supabase table is a set of rows;  *)
(* each helper is given the cache and the table and returns the new ones.  *)
(* ok = FALSE is the store answering with an error.                        *)
(***************************************************************************)
rowToNote(row) ==
  [id |-> row.id, title |-> row.title, content |-> row.content,
   tags |-> row.tags, createdAt |-> row.created_at]

noteToRow(note) ==
  [id |-> note.id, title |-> note.title, content |-> note.content,
   tags |-> note.tags, created_at |-> note.createdAt]

\* .select("*").order("created_at", { ascending: true })
RECURSIVE selectOrdered(_)
selectOrdered(tbl) ==
  IF tbl = {} THEN <<>>
  ELSE LET first == CHOOSE r \in tbl : \A q \in tbl : r.created_at <= q.created_at
       IN <<first>> \o selectOrdered(tbl \ {first})

\* loadAllNotes without the early return on error: data is null and
\* data.map throws
loadAllNotes_noErrorCheck(cache, tbl, configured, ok) ==
  IF ~configured THEN [notes |-> cache, threw |-> FALSE]
  ELSE IF ~ok THEN [notes |-> cache, threw |-> TRUE]
  ELSE LET data == selectOrdered(tbl)
       IN [notes |-> [i \in 1..Len(data) |-> rowToNote(data[i])], threw |-> FALSE]

loadAllNotes(cache, tbl, configured, ok) ==
  IF ~configured THEN [notes |-> cache, threw |-> FALSE]
  ELSE IF ~ok THEN [notes |-> cache, threw |-> FALSE]
  ELSE LET data == selectOrdered(tbl)
       IN [notes |-> [i \in 1..Len(data) |-> rowToNote(data[i])], threw |-> FALSE]

insertNote(cache, tbl, configured, note, ok) ==
  [notes |-> Append(cache, note),
   table |-> IF configured /\ ok THEN tbl \cup {noteToRow(note)} ELSE tbl]

\* notes.findIndex((n) => n.id === id): 0 stands for -1
findIndex(cache, id) ==
  IF \E i \in 1..Len(cache) : cache[i].id = id
  THEN CHOOSE i \in 1..Len(cache) : cache[i].id = id /\ \A k \in 1..(i - 1) : cache[k].id # id
  ELSE 0

\* splice removing the element after idx
splice_offByOne(cache, idx) == SubSeq(cache, 1, idx) \o SubSeq(cache, idx + 2, Len(cache))

\* notes.splice(idx, 1)
splice(cache, idx) == SubSeq(cache, 1, idx - 1) \o SubSeq(cache, idx + 1, Len(cache))

removeNote(cache, tbl, configured, id, ok) ==
  LET idx == findIndex(cache, id)
  IN IF idx = 0 THEN [notes |-> cache, table |-> tbl, found |-> FALSE]
     ELSE [notes |-> splice(cache, idx),
           table |-> IF configured /\ ok THEN {r \in tbl : r.id # id} ELSE tbl,
           found |-> TRUE]

\* the filter of search-notes
matchesQuery(n, q) ==
  \/ strIncludes(toLowerCase(n.title), q)
  \/ strIncludes(toLowerCase(n.content), q)
  \/ \E i \in 1..Len(n.tags) : strIncludes(n.tags[i], q)

(***************************************************************************)
(* Force simulation: useForceGraph.  A coordinate, velocity or force is an *)
(* integer number of tenths of a pixel; every product or quotient of the   *)
(* code is rounded toward zero to that unit, and the fallback 0.01 of      *)
(* "|| 0.01" is one unit.  A node is [id, x, y, vx, vy]; an edge is        *)
(* [source, target, strength] with the strength a fraction; the id 0       *)
(* stands for null.                                                        *)
(***************************************************************************)
Unit == 10

REPULSION == 4500

SPRING_LENGTH == 160

SPRING_K == Frac(4, 100)

CENTER_GRAVITY == Frac(15, 1000)

DAMPING == Frac(72, 100)

MAX_ALPHA == 300

PAD == 48

\* alphaRef.current = 60 in pinNode(null)
RELEASE_ALPHA == 60

\* quotient rounded toward zero, d > 0
divT(n, d) == IF n >= 0 THEN n \div d ELSE -((-n) \div d)

\* x * f for a fraction f
scale(x, f) == divT(x * f[1], f[2])

RECURSIVE sqrtBetween(_, _, _)
sqrtBetween(n, lo, hi) ==
  IF lo >= hi THEN lo
  ELSE LET mid == (lo + hi + 1) \div 2
       IN IF mid * mid <= n THEN sqrtBetween(n, mid, hi) ELSE sqrtBetween(n, lo, mid - 1)

\* Math.sqrt, rounded down to the unit
mathSqrt(n) == sqrtBetween(n, 0, IF n < 46340 THEN n ELSE 46340)

\* v || 0.01
orEpsilon(v) == IF v = 0 THEN 1 ELSE v

\* a clamp that lets a value pass the upper end
clamp_noUpper(lo, hi, v) == IF lo > v THEN lo ELSE v

clamp(lo, hi, v) ==
  LET upper == IF hi < v THEN hi ELSE v     \* Math.min(hi, v)
  IN IF lo > upper THEN lo ELSE upper       \* Math.max(lo, ...)

\* the repulsion (fx, fy) of the pair a, b
repulsionOf(a, b) ==
  LET dx == orEpsilon(b.x - a.x)
      dy == orEpsilon(b.y - a.y)
      dist2 == dx * dx + dy * dy
      dist == orEpsilon(mathSqrt(dist2))
      force == divT(REPULSION * Unit * Unit * Unit, dist2)
  IN <<divT(force * dx, dist), divT(force * dy, dist)>>

\* sim.find((n) => n.id === id): 0 when there is none, else its index
findNode(sim, id) ==
  IF \E i \in 1..Len(sim) : sim[i].id = id
  THEN CHOOSE i \in 1..Len(sim) : sim[i].id = id /\ \A k \in 1..(i - 1) : sim[k].id # id
  ELSE 0

\* the spring force (fx, fy) of an edge whose ends src and tgt exist
springOf(src, tgt, strength) ==
  LET dx == tgt.x - src.x
      dy == tgt.y - src.y
      dist == orEpsilon(mathSqrt(dx * dx + dy * dy))
      displacement == dist - SPRING_LENGTH * Unit
      spring == scale(scale(displacement, SPRING_K), strength)
  IN <<divT(spring * dx, dist), divT(spring * dy, dist)>>

RECURSIVE sumPairs(_, _)
sumPairs(list, i) ==
  IF i > Len(list) THEN <<0, 0>>
  ELSE LET rest == sumPairs(list, i + 1)
       IN <<list[i][1] + rest[1], list[i][2] + rest[2]>>

\* what the repulsion loop adds to the velocity of node k
repulsionOn(sim, k) ==
  sumPairs([m \in 1..Len(sim) |->
              IF m = k THEN <<0, 0>>
              ELSE IF k < m
                   THEN LET f == repulsionOf(sim[k], sim[m]) IN <<-f[1], -f[2]>>
                   ELSE repulsionOf(sim[m], sim[k])], 1)

\* a spring loop in which a missing end is taken to lie at the origin
springOn_noSkip(sim, edgeList, k) ==
  sumPairs([e \in 1..Len(edgeList) |->
              LET si == findNode(sim, edgeList[e].source)
                  ti == findNode(sim, edgeList[e].target)
                  origin == [id |-> 0, x |-> 0, y |-> 0, vx |-> 0, vy |-> 0]
                  f == springOf(IF si = 0 THEN origin ELSE sim[si],
                                IF ti = 0 THEN origin ELSE sim[ti], edgeList[e].strength)
                  plus == IF si = k THEN f ELSE <<0, 0>>
                  minus == IF ti = k THEN f ELSE <<0, 0>>
              IN <<plus[1] - minus[1], plus[2] - minus[2]>>], 1)

\* what the spring loop adds to the velocity of node k; an edge with a
\* missing end is skipped
springOn(sim, edgeList, k) ==
  sumPairs([e \in 1..Len(edgeList) |->
              LET si == findNode(sim, edgeList[e].source)
                  ti == findNode(sim, edgeList[e].target)
              IN IF si = 0 \/ ti = 0 THEN <<0, 0>>
                 ELSE LET f == springOf(sim[si], sim[ti], edgeList[e].strength)
                          plus == IF si = k THEN f ELSE <<0, 0>>
                          minus == IF ti = k THEN f ELSE <<0, 0>>
                      IN <<plus[1] - minus[1], plus[2] - minus[2]>>], 1)

\* a tick whose integration loop does not skip the pinned node
tickNode_movesPinned(sim, edgeList, width, height, pinnedId, k) ==
  LET node == sim[k]
      cx == divT(width * Unit, 2)
      cy == divT(height * Unit, 2)
      vx == scale(node.vx + scale(cx - node.x, CENTER_GRAVITY), DAMPING)
      vy == scale(node.vy + scale(cy - node.y, CENTER_GRAVITY), DAMPING)
  IN [id |-> node.id,
      x  |-> clamp(PAD * Unit, (width - PAD) * Unit, node.x + vx),
      y  |-> clamp(PAD * Unit, (height - PAD) * Unit, node.y + vy),
      vx |-> vx,
      vy |-> vy]

\* one node after the four loops of a tick with heat; the pinned node is
\* skipped by all of them
tickNode(sim, edgeList, width, height, pinnedId, k) ==
  LET node == sim[k]
      rep == repulsionOn(sim, k)
      spr == springOn(sim, edgeList, k)
      cx == divT(width * Unit, 2)
      cy == divT(height * Unit, 2)
      vx == scale(node.vx + rep[1] + spr[1] + scale(cx - node.x, CENTER_GRAVITY), DAMPING)
      vy == scale(node.vy + rep[2] + spr[2] + scale(cy - node.y, CENTER_GRAVITY), DAMPING)
  IN IF node.id = pinnedId THEN node
     ELSE [id |-> node.id,
           x  |-> clamp(PAD * Unit, (width - PAD) * Unit, node.x + vx),
           y  |-> clamp(PAD * Unit, (height - PAD) * Unit, node.y + vy),
           vx |-> vx,
           vy |-> vy]

\* nodesRef.current after the body of tick
tickNodes(sim, edgeList, width, height, pinnedId, heat) ==
  IF heat > 0
  THEN [k \in 1..Len(sim) |-> tickNode(sim, edgeList, width, height, pinnedId, k)]
  ELSE sim

\* a tick that leaves the heat as it is
tickAlpha_stuck(heat) == heat

\* alphaRef.current after the body of tick
tickAlpha(heat) == IF heat > 0 THEN (IF heat - 1 > 0 THEN heat - 1 ELSE 0) ELSE heat

\* the Map published by setPositions
publish(sim) == [id \in {sim[i].id : i \in 1..Len(sim)} |->
                   LET n == sim[findNode(sim, id)] IN <<n.x, n.y>>]

\* cos and sin of 2 * pi * i / n in thousandths, for the i-th of n node ids
COS_MILLI == << <<1000>>, <<1000, -1000>>, <<1000, -500, -500>>, <<1000, 0, -1000, 0>> >>

SIN_MILLI == << <<0>>, <<0, 0>>, <<0, 866, -866>>, <<0, 1000, 0, -1000>> >>

\* the node created for the i-th (from 0) of n ids; jitter is the pair
\* ((Math.random() - 0.5) * 20, (Math.random() - 0.5) * 20)
placeNode(id, i, n, width, height, jitter) ==
  LET cx == divT(width * Unit, 2)
      cy == divT(height * Unit, 2)
      r == divT((IF width < height THEN width ELSE height) * Unit, 4)
  IN [id |-> id,
      x  |-> cx + divT(r * COS_MILLI[n][i + 1], 1000) + jitter[1],
      y  |-> cy + divT(r * SIN_MILLI[n][i + 1], 1000) + jitter[2],
      vx |-> 0,
      vy |-> 0]

\* an upsert that creates every node anew
upsertNodes_rebuildsAll(sim, ids, width, height, jitters) ==
  IF width = 0 \/ height = 0 THEN sim
  ELSE [i \in 1..Len(ids) |-> placeNode(ids[i], i - 1, Len(ids), width, height, jitters[i])]

\* the node upsert effect: nodesRef.current after it
upsertNodes(sim, ids, width, height, jitters) ==
  IF width = 0 \/ height = 0 THEN sim
  ELSE [i \in 1..Len(ids) |->
          IF findNode(sim, ids[i]) # 0 THEN sim[findNode(sim, ids[i])]
          ELSE placeNode(ids[i], i - 1, Len(ids), width, height, jitters[i])]

(***************************************************************************)
(* State                                                                   *)
(***************************************************************************)
VARIABLES
  inferNotes,   \* the argument allNotes of a computeConnections call
  inferOut,     \* its result
  inferPrev,    \* the result for the same notes in the opposite order
  inferClient,  \* the result of computeConnectionsClient for the same notes
  inferPc       \* "input", "computed", "swapped"

inferVars == <<inferNotes, inferOut, inferPrev, inferClient, inferPc>>

VARIABLES
  supabase,     \* TRUE when SUPABASE_URL and SUPABASE_KEY are set
  notes,        \* the in-memory cache
  table,        \* the rows of the Supabase table "notes"
  nextId,       \* ids and creation times handed out so far, plus one
  call,         \* the last tool call: its name, arguments and the store's answer
  resp,         \* the response of the last tool call
  inFlight      \* the tool calls waiting for the store at an await

serverVars == <<supabase, notes, table, nextId, call, resp, inFlight>>

\* The graph view and its force simulation: the props of useForceGraph
\* (nodeIds, edges, width, height), its refs and its positions state, the
\* animation frames the browser holds (each with what its tick closes over),
\* and the bookkeeping of the exploration (steps, last) and of the pin
\* (lastSet: the position last written to the pinned node by pinNode or
\* moveNode, <<>> when none; dropped: the pinned node has since left the
\* simulation).  drawn is what the last render of GraphView drew for each
\* connection: <<>> for null, else <<the line>>.
VARIABLES
  mounted,
  nodeIds,
  edges,
  width,
  height,
  nodesRef,
  pinnedRef,
  alphaRef,
  rafRef,
  frames,
  handles,
  positions,
  drawn,
  lastSet,
  dropped,
  steps,
  cooled,       \* ghost: ticks of a non-empty simulation since the heat was last set
  last

simVars == <<mounted, nodeIds, edges, width, height, nodesRef, pinnedRef, alphaRef,
             rafRef, frames, handles, positions, drawn, lastSet, dropped, steps, cooled,
             last>>

\* A call of the tag normalisation (tagsIn, the server's and the widget's
\* result) and a call of extractKeywords (textIn, keywordsOut).
VARIABLES
  tagsIn,
  tagsOut,
  widgetTagsOut,
  tagsPc,
  textIn,
  keywordsOut,
  textPc

fnVars == <<tagsIn, tagsOut, widgetTagsOut, tagsPc, textIn, keywordsOut, textPc>>

\* GraphView's own state: the viewport transform (x, y in tenths of a pixel,
\* scale in thousandths), the pan in progress (<<>> when none), the node
\* being dragged (0 when none), and what the event handlers of the last
\* render close over.  pointer is the position of the last pointer event and
\* pressed the node the pointer is held down on (ghosts); selectedNoteId is
\* the widget's selection.
VARIABLES
  transform,
  panStart,
  draggingNode,
  captured,
  selectedNoteId,
  pointer,
  pressed

viewVars == <<transform, panStart, draggingNode, captured, selectedNoteId, pointer, pressed>>

vars == <<inferVars, serverVars, simVars, fnVars, viewVars>>

(***************************************************************************)
(* Connection inference applied to two notes, in both orders               *)
(***************************************************************************)
NoCall == [tool |-> "none", id |-> 0, storeOk |-> TRUE]

NoResp ==
  [tool |-> "none", isError |-> FALSE, note |-> <<>>, notes |-> <<>>,
   connections |-> <<>>, deleted |-> FALSE, results |-> <<>>, total |-> 0]

IDENTITY == [x |-> 0, y |-> 0, scale |-> 1000]

\* what the handlers of a render close over: draggingNode, panStart,
\* transform, and the nodes drawn (those with a published position)
closure(dragging, pan, t, published, ids) ==
  [draggingNode |-> dragging, panStart |-> pan, transform |-> t,
   drawnNodes |-> {id \in Range(ids) : id \in DOMAIN published}]

ViewIdle ==
  /\ transform = IDENTITY
  /\ panStart = <<>>
  /\ draggingNode = 0
  /\ captured = closure(0, <<>>, IDENTITY, <<>>, <<>>)
  /\ selectedNoteId = 0
  /\ pointer = <<0, 0>>
  /\ pressed = 0

ServerIdle ==
  /\ supabase = FALSE
  /\ inFlight = {}
  /\ notes = <<>>
  /\ table = {}
  /\ nextId = 1
  /\ call = NoCall
  /\ resp = NoResp

\* no call of the tag normalisation or of extractKeywords
FnIdle ==
  /\ tagsIn = <<>>
  /\ tagsOut = <<>>
  /\ widgetTagsOut = <<>>
  /\ tagsPc = "idle"
  /\ textIn = <<>>
  /\ keywordsOut = <<>>
  /\ textPc = "idle"

\* the graph view is not mounted
SimIdle ==
  /\ mounted = FALSE
  /\ nodeIds = <<>>
  /\ edges = <<>>
  /\ width = 0
  /\ height = 0
  /\ nodesRef = <<>>
  /\ pinnedRef = 0
  /\ alphaRef = MAX_ALPHA
  /\ rafRef = 0
  /\ frames = {}
  /\ handles = 0
  /\ positions = <<>>
  /\ drawn = <<>>
  /\ lastSet = <<>>
  /\ dropped = FALSE
  /\ steps = 0
  /\ cooled = 0
  /\ last = "none"

InferIdle ==
  /\ inferNotes = <<>>
  /\ inferOut = <<>>
  /\ inferPrev = <<>>
  /\ inferClient = <<>>
  /\ inferPc = "idle"

InferInit ==
  /\ ViewIdle
  /\ ServerIdle
  /\ SimIdle
  /\ FnIdle
  /\ \E x \in Titles, y \in Titles, cx \in Contents, cy \in Contents,
        tx \in RawTagLists, ty \in RawTagLists, ids \in {<<1, 2>>, <<2, 1>>} :
        inferNotes = <<newNote(ids[1], x, cx, tx, 1), newNote(ids[2], y, cy, ty, 2)>>
  /\ inferOut = <<>>
  /\ inferPrev = <<>>
  /\ inferClient = <<>>
  /\ inferPc = "input"

Infer ==
  /\ inferPc = "input"
  /\ inferOut' = computeConnections(inferNotes)
  /\ inferPc' = "computed"
  /\ UNCHANGED <<inferNotes, inferPrev, inferClient, serverVars, simVars, fnVars, viewVars>>

InferSwapped ==
  /\ inferPc = "computed"
  /\ inferNotes' = <<inferNotes[2], inferNotes[1]>>
  /\ inferPrev' = inferOut
  /\ inferOut' = computeConnections(<<inferNotes[2], inferNotes[1]>>)
  /\ inferPc' = "swapped"
  /\ UNCHANGED <<inferClient, serverVars, simVars, fnVars, viewVars>>

InferNext == Infer \/ InferSwapped

SpecInfer == InferInit /\ [][InferNext]_vars

(***************************************************************************)
(* The server: tool handlers of src/index.ts, one call at a time           *)
(***************************************************************************)
\* the store's answers a call can get: the store is only called when configured
StoreAnswers == IF supabase THEN BOOLEAN ELSE {TRUE}

\* module start-up, and the pre-load of server.listen().then(...) on the
\* still empty table
Init ==
  /\ ViewIdle
  /\ InferIdle
  /\ SimIdle
  /\ FnIdle
  /\ supabase \in BOOLEAN
  /\ inFlight = {}
  /\ table = {}
  /\ notes = loadAllNotes(<<>>, {}, supabase, TRUE).notes
  /\ nextId = 1
  /\ call = NoCall
  /\ resp = NoResp

AddNote(in, ok) ==
  LET note == newNote(nextId, in.title, in.content, in.tags, nextId)
      ins == insertNote(notes, table, supabase, note, ok)
  IN /\ nextId <= MaxNotes
     /\ nextId' = nextId + 1
     /\ notes' = ins.notes
     /\ table' = ins.table
     /\ call' = [tool |-> "add-note", id |-> note.id, storeOk |-> ok]
     /\ resp' = [NoResp EXCEPT !.tool = "add-note",
                               !.note = <<note>>,
                               !.notes = ins.notes,
                               !.connections = computeConnections(ins.notes)]
     /\ UNCHANGED <<inFlight, supabase, inferVars, simVars, fnVars, viewVars>>

\* delete-note with the connections computed before the note is removed
DeleteNote_staleConnections(id, ok) ==
  LET rem == removeNote(notes, table, supabase, id, ok)
  IN /\ notes' = rem.notes
     /\ table' = rem.table
     /\ call' = [tool |-> "delete-note", id |-> id, storeOk |-> ok]
     /\ resp' = [NoResp EXCEPT !.tool = "delete-note",
                               !.notes = rem.notes,
                               !.connections = computeConnections(notes),
                               !.deleted = rem.found]
     /\ UNCHANGED <<inFlight, supabase, nextId, inferVars, simVars, fnVars, viewVars>>

DeleteNote(id, ok) ==
  LET rem == removeNote(notes, table, supabase, id, ok)
  IN /\ notes' = rem.notes
     /\ table' = rem.table
     /\ call' = [tool |-> "delete-note", id |-> id, storeOk |-> ok]
     /\ resp' = [NoResp EXCEPT !.tool = "delete-note",
                               !.notes = rem.notes,
                               !.connections = computeConnections(rem.notes),
                               !.deleted = rem.found]
     /\ UNCHANGED <<inFlight, supabase, nextId, inferVars, simVars, fnVars, viewVars>>

SearchNotes(q, ok) ==
  LET load == loadAllNotes(notes, table, supabase, ok)
      results == SelectSeq(load.notes, LAMBDA n : matchesQuery(n, toLowerCase(q)))
  IN /\ notes' = load.notes
     /\ call' = [tool |-> "search-notes", id |-> 0, storeOk |-> ok]
     /\ resp' = IF load.threw
                THEN [NoResp EXCEPT !.tool = "search-notes", !.isError = TRUE]
                ELSE [NoResp EXCEPT !.tool = "search-notes",
                                    !.results = results,
                                    !.total = Len(results)]
     /\ UNCHANGED <<inFlight, supabase, table, nextId, inferVars, simVars, fnVars, viewVars>>

ViewKnowledgeGraph(ok) ==
  LET load == loadAllNotes(notes, table, supabase, ok)
  IN /\ notes' = load.notes
     /\ call' = [tool |-> "view-knowledge-graph", id |-> 0, storeOk |-> ok]
     /\ resp' = IF load.threw
                THEN [NoResp EXCEPT !.tool = "view-knowledge-graph", !.isError = TRUE]
                ELSE [NoResp EXCEPT !.tool = "view-knowledge-graph",
                                    !.notes = load.notes,
                                    !.connections = computeConnections(load.notes)]
     /\ UNCHANGED <<inFlight, supabase, table, nextId, inferVars, simVars, fnVars, viewVars>>

Next ==
  \/ \E in \in ServerInputs, ok \in StoreAnswers : AddNote(in, ok)
  \/ \E id \in 1..MaxNotes, ok \in StoreAnswers : DeleteNote(id, ok)
  \/ \E q \in SearchQueries, ok \in StoreAnswers : SearchNotes(q, ok)
  \/ \E ok \in StoreAnswers : ViewKnowledgeGraph(ok)

Spec == Init /\ [][Next]_vars

(***************************************************************************)
(* delete-note applied to every cache of up to MaxList notes               *)
(***************************************************************************)
RECURSIVE NoteLists(_)
NoteLists(n) ==
  IF n = 0 THEN {<<>>}
  ELSE {Append(l, newNote(n, in.title, in.content, in.tags, n)) :
          l \in NoteLists(n - 1), in \in ServerInputs}

DeleteInit ==
  /\ ViewIdle
  /\ InferIdle
  /\ SimIdle
  /\ FnIdle
  /\ supabase \in BOOLEAN
  /\ inFlight = {}
  /\ \E n \in 0..MaxList : notes \in NoteLists(n) /\ nextId = n + 1
  /\ table = IF supabase THEN {noteToRow(notes[i]) : i \in 1..Len(notes)} ELSE {}
  /\ call = NoCall
  /\ resp = NoResp

DeleteNext == \E id \in 1..MaxList, ok \in StoreAnswers : DeleteNote(id, ok)

SpecDelete == DeleteInit /\ [][DeleteNext]_vars

(***************************************************************************)
(* The handlers with their awaits: a handler runs to its await, the store  *)
(* serves the request at some later moment and the handler goes on when    *)
(* the answer arrives.  Supabase is configured and answers without error.  *)
(* At most one add-note or delete-note and one loadAllNotes (of            *)
(* search-notes or view-knowledge-graph) are in flight.                    *)
(***************************************************************************)
MaxRaceNotes == 2

Mutations == {"add-note", "delete-note"}

Loaders == {"search-notes", "view-knowledge-graph"}

request(tool, id, note, query) ==
  [tool |-> tool, id |-> id, note |-> note, query |-> query, pc |-> "sent", data |-> <<>>]

RaceInit ==
  /\ ViewIdle
  /\ InferIdle
  /\ SimIdle
  /\ FnIdle
  /\ supabase = TRUE
  /\ inFlight = {}
  /\ table = {}
  /\ notes = <<>>
  /\ nextId = 1
  /\ call = NoCall
  /\ resp = NoResp

raceFrame == UNCHANGED <<supabase, inferVars, simVars, fnVars, viewVars>>

\* add-note up to the await in insertNote
AddNoteStart(in) ==
  LET note == newNote(nextId, in.title, in.content, in.tags, nextId)
  IN /\ nextId <= MaxRaceNotes
     /\ \A t \in inFlight : t.tool \notin Mutations
     /\ nextId' = nextId + 1
     /\ notes' = Append(notes, note)
     /\ inFlight' = inFlight \cup {request("add-note", note.id, <<note>>, <<>>)}
     /\ UNCHANGED <<table, call, resp>>
     /\ raceFrame

\* the store performs the insert
StoreInsert(t) ==
  /\ t \in inFlight /\ t.tool = "add-note" /\ t.pc = "sent"
  /\ table' = table \cup {noteToRow(t.note[1])}
  /\ inFlight' = (inFlight \ {t}) \cup {[t EXCEPT !.pc = "answered"]}
  /\ UNCHANGED <<notes, nextId, call, resp>>
  /\ raceFrame

\* add-note after the await
AddNoteEnd(t) ==
  /\ t \in inFlight /\ t.tool = "add-note" /\ t.pc = "answered"
  /\ inFlight' = inFlight \ {t}
  /\ call' = [tool |-> "add-note", id |-> t.id, storeOk |-> TRUE]
  /\ resp' = [NoResp EXCEPT !.tool = "add-note",
                            !.note = t.note,
                            !.notes = notes,
                            !.connections = computeConnections(notes)]
  /\ UNCHANGED <<notes, table, nextId>>
  /\ raceFrame

\* delete-note up to the await in removeNote, or to its end when the id is
\* not in the cache
DeleteNoteStart(id) ==
  LET idx == findIndex(notes, id)
  IN /\ \A t \in inFlight : t.tool \notin Mutations
     /\ IF idx = 0
        THEN /\ call' = [tool |-> "delete-note", id |-> id, storeOk |-> TRUE]
             /\ resp' = [NoResp EXCEPT !.tool = "delete-note",
                                       !.notes = notes,
                                       !.connections = computeConnections(notes),
                                       !.deleted = FALSE]
             /\ UNCHANGED <<notes, inFlight>>
        ELSE /\ notes' = splice(notes, idx)
             /\ inFlight' = inFlight \cup {request("delete-note", id, <<>>, <<>>)}
             /\ UNCHANGED <<call, resp>>
     /\ UNCHANGED <<table, nextId>>
     /\ raceFrame

\* the store performs the delete
StoreDelete(t) ==
  /\ t \in inFlight /\ t.tool = "delete-note" /\ t.pc = "sent"
  /\ table' = {r \in table : r.id # t.id}
  /\ inFlight' = (inFlight \ {t}) \cup {[t EXCEPT !.pc = "answered"]}
  /\ UNCHANGED <<notes, nextId, call, resp>>
  /\ raceFrame

\* delete-note after the await
DeleteNoteEnd(t) ==
  /\ t \in inFlight /\ t.tool = "delete-note" /\ t.pc = "answered"
  /\ inFlight' = inFlight \ {t}
  /\ call' = [tool |-> "delete-note", id |-> t.id, storeOk |-> TRUE]
  /\ resp' = [NoResp EXCEPT !.tool = "delete-note",
                            !.notes = notes,
                            !.connections = computeConnections(notes),
                            !.deleted = TRUE]
  /\ UNCHANGED <<notes, table, nextId>>
  /\ raceFrame

\* search-notes or view-knowledge-graph up to the await in loadAllNotes
LoadStart(tool, q) ==
  /\ \A t \in inFlight : t.tool \notin Loaders
  /\ inFlight' = inFlight \cup {request(tool, 0, <<>>, IF tool = "search-notes" THEN q ELSE <<>>)}
  /\ UNCHANGED <<notes, table, nextId, call, resp>>
  /\ raceFrame

\* the store performs the select
StoreSelect(t) ==
  /\ t \in inFlight /\ t.tool \in Loaders /\ t.pc = "sent"
  /\ inFlight' = (inFlight \ {t}) \cup {[t EXCEPT !.pc = "answered", !.data = selectOrdered(table)]}
  /\ UNCHANGED <<notes, table, nextId, call, resp>>
  /\ raceFrame

\* loadAllNotes after the await, and the rest of its handler
LoadEnd(t) ==
  LET loaded == [i \in 1..Len(t.data) |-> rowToNote(t.data[i])]
      results == SelectSeq(loaded, LAMBDA n : matchesQuery(n, toLowerCase(t.query)))
  IN /\ t \in inFlight /\ t.tool \in Loaders /\ t.pc = "answered"
     /\ inFlight' = inFlight \ {t}
     /\ notes' = loaded
     /\ call' = [tool |-> t.tool, id |-> 0, storeOk |-> TRUE]
     /\ resp' = IF t.tool = "search-notes"
                THEN [NoResp EXCEPT !.tool = "search-notes",
                                    !.results = results,
                                    !.total = Len(results)]
                ELSE [NoResp EXCEPT !.tool = "view-knowledge-graph",
                                    !.notes = loaded,
                                    !.connections = computeConnections(loaded)]
     /\ UNCHANGED <<table, nextId>>
     /\ raceFrame

RaceNext ==
  \/ \E in \in ServerInputs : AddNoteStart(in)
  \/ \E t \in inFlight : StoreInsert(t)
  \/ \E t \in inFlight : AddNoteEnd(t)
  \/ \E id \in 1..MaxRaceNotes : DeleteNoteStart(id)
  \/ \E t \in inFlight : StoreDelete(t)
  \/ \E t \in inFlight : DeleteNoteEnd(t)
  \/ \E tool \in Loaders, q \in SearchQueries : LoadStart(tool, q)
  \/ \E t \in inFlight : StoreSelect(t)
  \/ \E t \in inFlight : LoadEnd(t)

SpecRace == RaceInit /\ [][RaceNext]_vars

(***************************************************************************)
(* The graph view: GraphView renders useForceGraph with the ids of the     *)
(* visible notes, the edges of the visible connections and the measured    *)
(* size; the browser calls the pending animation frames; pointer handlers  *)
(* call pinNode, moveNode and restart.                                     *)
(***************************************************************************)
E_HALF == [source |-> 1, target |-> 2, strength |-> Frac(1, 2)]

E_STRONG == [source |-> 1, target |-> 2, strength |-> Frac(9, 10)]

GraphInputs ==
  { [nodeIds |-> <<>>,     edges |-> <<>>],
    [nodeIds |-> <<1, 2>>, edges |-> <<E_HALF>>],
    [nodeIds |-> <<1, 2>>, edges |-> <<E_STRONG>>],
    [nodeIds |-> <<1, 2>>, edges |-> <<>>],
    [nodeIds |-> <<2, 3>>, edges |-> <<E_HALF>>] }

\* useState({ width: 600, height: 420 })
INITIAL_SIZE == <<600, 420>>

Sizes == {INITIAL_SIZE, <<0, 0>>, <<80, 60>>}

\* the draws of (Math.random() - 0.5) * 20 of one run of the upsert effect,
\* a pair for each index of nodeIds
Jitters ==
  { << <<0, 0>>, <<0, 0>>, <<0, 0>> >>,
    << <<-100, 99>>, <<43, -61>>, <<8, -100>> >> }

\* the arguments of pinNode and moveNode
DragIds == {1, 2}

DragPoints == { <<1000, 1500>> }

MaxSteps == 4

\* the dependency `${e.source}>${e.target}` of the loop effect
endpoints(edgeList) == [i \in 1..Len(edgeList) |-> <<edgeList[i].source, edgeList[i].target>>]

\* a cancelAnimationFrame that releases nothing
cancelAnimationFrame_noop(pending, handle) == pending

cancelAnimationFrame(pending, handle) == {f \in pending : f.handle # handle}

requestAnimationFrame(pending, handle, edgeList, w, h) ==
  pending \cup {[handle |-> handle, edges |-> edgeList, width |-> w, height |-> h]}

\* what GraphView draws for one connection: <<>> (null) when either end
\* has no published position, else the line between the two positions
renderEdge(conn, published) ==
  IF conn.source \notin DOMAIN published \/ conn.target \notin DOMAIN published
  THEN <<>>
  ELSE <<[x1 |-> published[conn.source][1], y1 |-> published[conn.source][2],
          x2 |-> published[conn.target][1], y2 |-> published[conn.target][2]]>>

\* connections.map(...) of GraphView
renderEdges(edgeList, published) ==
  [i \in 1..Len(edgeList) |-> renderEdge(edgeList[i], published)]

\* The effects of one render of GraphView, in the order of their
\* declaration: the node upsert effect and the loop effect of useForceGraph,
\* then the restart effect of GraphView.  old holds the props of the previous
\* render and the refs.
runEffects(old, ids, edgeList, w, h, jitters, isMount) ==
  LET sized == w # 0 /\ h # 0
      upsertRuns == isMount \/ ids # old.nodeIds \/ w # old.width \/ h # old.height
      loopRuns == upsertRuns \/ endpoints(edgeList) # endpoints(old.edges)
      restartRuns == isMount \/ Len(ids) # Len(old.nodeIds)
      hadCleanup == ~isMount /\ old.width # 0 /\ old.height # 0
      cleaned == IF loopRuns /\ hadCleanup /\ old.rafRef # 0
                 THEN cancelAnimationFrame(old.frames, old.rafRef)
                 ELSE old.frames
      alpha1 == IF upsertRuns /\ sized THEN MAX_ALPHA ELSE old.alphaRef
  IN [nodesRef |-> IF upsertRuns THEN upsertNodes(old.nodesRef, ids, w, h, jitters)
                   ELSE old.nodesRef,
      alphaRef |-> IF restartRuns THEN MAX_ALPHA ELSE alpha1,
      rafRef   |-> IF loopRuns /\ sized THEN old.handles + 1 ELSE old.rafRef,
      frames   |-> IF loopRuns /\ sized
                   THEN requestAnimationFrame(cancelAnimationFrame(cleaned, old.rafRef),
                                              old.handles + 1, edgeList, w, h)
                   ELSE cleaned,
      handles  |-> IF loopRuns /\ sized THEN old.handles + 1 ELSE old.handles]

unmounted ==
  [nodeIds |-> <<>>, edges |-> <<>>, width |-> 0, height |-> 0, nodesRef |-> <<>>,
   alphaRef |-> MAX_ALPHA, rafRef |-> 0, frames |-> {}, handles |-> 0]

current ==
  [nodeIds |-> nodeIds, edges |-> edges, width |-> width, height |-> height,
   nodesRef |-> nodesRef, alphaRef |-> alphaRef, rafRef |-> rafRef, frames |-> frames,
   handles |-> handles]

\* GraphView has mounted
SimInit ==
  /\ ViewIdle
  /\ ServerIdle
  /\ InferIdle
  /\ FnIdle
  /\ \E g \in GraphInputs, jitters \in Jitters :
       LET after == runEffects(unmounted, g.nodeIds, g.edges, INITIAL_SIZE[1],
                               INITIAL_SIZE[2], jitters, TRUE)
       IN /\ nodeIds = g.nodeIds
          /\ edges = g.edges
          /\ nodesRef = after.nodesRef
          /\ alphaRef = after.alphaRef
          /\ rafRef = after.rafRef
          /\ frames = after.frames
          /\ handles = after.handles
          /\ drawn = renderEdges(g.edges, <<>>)
  /\ mounted = TRUE
  /\ width = INITIAL_SIZE[1]
  /\ height = INITIAL_SIZE[2]
  /\ pinnedRef = 0
  /\ positions = <<>>
  /\ lastSet = <<>>
  /\ dropped = FALSE
  /\ steps = 0
  /\ cooled = 0
  /\ last = "mount"

\* a render: the effects run, and a pinned node that leaves the simulation
\* is noted
Render(ids, edgeList, w, h, jitters, name) ==
  LET after == runEffects(current, ids, edgeList, w, h, jitters, FALSE)
  IN /\ mounted
     /\ steps < MaxSteps
     /\ nodeIds' = ids
     /\ edges' = edgeList
     /\ width' = w
     /\ height' = h
     /\ nodesRef' = after.nodesRef
     /\ alphaRef' = after.alphaRef
     /\ rafRef' = after.rafRef
     /\ frames' = after.frames
     /\ handles' = after.handles
     /\ drawn' = renderEdges(edgeList, positions)
     /\ dropped' = (dropped \/ (pinnedRef # 0 /\ findNode(nodesRef, pinnedRef) # 0
                                 /\ findNode(after.nodesRef, pinnedRef) = 0))
     /\ steps' = steps + 1
     /\ UNCHANGED <<cooled, viewVars>>
     /\ last' = name
     /\ UNCHANGED <<mounted, pinnedRef, positions, lastSet, inferVars, serverVars, fnVars>>

\* the visible notes or connections change
RenderProps(g, jitters) ==
  /\ <<g.nodeIds, g.edges>> # <<nodeIds, edges>>
  /\ Render(g.nodeIds, g.edges, width, height, jitters, "props")

\* the ResizeObserver reports another size
Resized(size, jitters) ==
  /\ size # <<width, height>>
  /\ Render(nodeIds, edges, size[1], size[2], jitters, "resize")

\* the body of tick, called by the browser with the pending frame f
tick(f) ==
  /\ f \in frames
  /\ rafRef' = handles + 1
  /\ handles' = handles + 1
  /\ frames' = requestAnimationFrame(frames \ {f}, handles + 1, f.edges, f.width, f.height)
  /\ IF Len(nodesRef) = 0
     THEN UNCHANGED <<nodesRef, alphaRef, positions, drawn>>
     ELSE /\ nodesRef' = tickNodes(nodesRef, f.edges, f.width, f.height, pinnedRef, alphaRef)
          /\ alphaRef' = tickAlpha(alphaRef)
          /\ positions' = publish(nodesRef')
          /\ drawn' = renderEdges(edges, positions')
  /\ last' = "tick"
  /\ UNCHANGED <<mounted, nodeIds, edges, width, height, pinnedRef, lastSet, dropped,
                 inferVars, serverVars, fnVars>>

\* the browser calls the pending frame f
Tick(f) ==
  /\ steps < MaxSteps
  /\ tick(f)
  /\ steps' = steps + 1
  /\ UNCHANGED <<cooled, viewVars>>

\* a pinNode that leaves the heat as it is
pinNode_noReheat(id) ==
  /\ mounted
  /\ pinnedRef' = id
  /\ alphaRef' = alphaRef
  /\ lastSet' = IF id # 0 /\ findNode(nodesRef, id) # 0
                THEN LET n == nodesRef[findNode(nodesRef, id)] IN <<n.x, n.y>>
                ELSE <<>>
  /\ dropped' = FALSE
  /\ last' = "pin"
  /\ UNCHANGED <<mounted, nodeIds, edges, width, height, nodesRef, rafRef, frames, handles,
                 positions, drawn, inferVars, serverVars, fnVars>>

\* pinNode(id); id = 0 is null
pinNode(id) ==
  /\ mounted
  /\ pinnedRef' = id
  /\ alphaRef' = IF id = 0 THEN RELEASE_ALPHA ELSE alphaRef
  /\ lastSet' = IF id # 0 /\ findNode(nodesRef, id) # 0
                THEN LET n == nodesRef[findNode(nodesRef, id)] IN <<n.x, n.y>>
                ELSE <<>>
  /\ dropped' = FALSE
  /\ last' = "pin"
  /\ UNCHANGED <<mounted, nodeIds, edges, width, height, nodesRef, rafRef, frames, handles,
                 positions, drawn, inferVars, serverVars, fnVars>>

PinNode(id) ==
  /\ steps < MaxSteps
  /\ pinNode(id)
  /\ steps' = steps + 1
  /\ UNCHANGED <<cooled, viewVars>>

\* moveNode(id, x, y)
moveNode(id, point) ==
  LET k == findNode(nodesRef, id)
  IN /\ mounted
     /\ IF k = 0
        THEN UNCHANGED <<nodesRef, positions, drawn, lastSet, dropped>>
        ELSE /\ nodesRef' = [nodesRef EXCEPT ![k] = [id |-> id, x |-> point[1], y |-> point[2],
                                                      vx |-> 0, vy |-> 0]]
             /\ positions' = [i \in (DOMAIN positions) \cup {id} |->
                                IF i = id THEN point ELSE positions[i]]
             /\ drawn' = renderEdges(edges, positions')
             /\ lastSet' = IF id = pinnedRef THEN point ELSE lastSet
             /\ dropped' = IF id = pinnedRef THEN FALSE ELSE dropped
     /\ last' = "move"
     /\ UNCHANGED <<mounted, nodeIds, edges, width, height, pinnedRef, alphaRef, rafRef,
                    frames, handles, inferVars, serverVars, fnVars>>

MoveNode(id, point) ==
  /\ steps < MaxSteps
  /\ moveNode(id, point)
  /\ steps' = steps + 1
  /\ UNCHANGED <<cooled, viewVars>>

\* restart()
restart ==
  /\ mounted
  /\ alphaRef' = MAX_ALPHA
  /\ last' = "restart"
  /\ UNCHANGED <<mounted, nodeIds, edges, width, height, nodesRef, pinnedRef, rafRef,
                 frames, handles, positions, drawn, lastSet, dropped, inferVars, serverVars, fnVars>>

Restart ==
  /\ steps < MaxSteps
  /\ restart
  /\ steps' = steps + 1
  /\ UNCHANGED <<cooled, viewVars>>

\* GraphView unmounts: the cleanup of the loop effect runs
Unmount ==
  /\ mounted
  /\ steps < MaxSteps
  /\ mounted' = FALSE
  /\ frames' = IF width # 0 /\ height # 0 /\ rafRef # 0
               THEN cancelAnimationFrame(frames, rafRef) ELSE frames
  /\ steps' = steps + 1
  /\ UNCHANGED <<cooled, viewVars>>
  /\ drawn' = <<>>
  /\ last' = "unmount"
  /\ UNCHANGED <<nodeIds, edges, width, height, nodesRef, pinnedRef, alphaRef, rafRef,
                 handles, positions, lastSet, dropped, inferVars, serverVars, fnVars>>

SimNext ==
  \/ \E g \in GraphInputs, jitters \in Jitters : RenderProps(g, jitters)
  \/ \E size \in Sizes, jitters \in Jitters : Resized(size, jitters)
  \/ \E f \in frames : Tick(f)
  \/ \E id \in DragIds \cup {0} : PinNode(id)
  \/ \E id \in DragIds, point \in DragPoints : MoveNode(id, point)
  \/ Restart
  \/ Unmount

SpecSim == SimInit /\ [][SimNext]_vars

(***************************************************************************)
(* Cooling: GraphView has mounted with no note or with two connected      *)
(* notes; the browser calls frame after frame, up to MaxFrames of them,    *)
(* and restart() or pinNode(null) may set the heat at any time.  cooled    *)
(* counts the ticks since the heat was last set.                           *)
(***************************************************************************)
MaxFrames == 310

CoolInit ==
  /\ SimInit
  /\ nodeIds = <<>> \/ (nodeIds = <<1, 2>> /\ edges = <<E_HALF>>)

CoolTick(f) ==
  /\ handles < MaxFrames
  /\ tick(f)
  /\ cooled' = cooled + 1
  /\ UNCHANGED <<steps, viewVars>>

CoolRestart ==
  /\ restart
  /\ cooled' = 0
  /\ UNCHANGED <<steps, viewVars>>

CoolRelease ==
  /\ pinNode(0)
  /\ cooled' = 0
  /\ UNCHANGED <<steps, viewVars>>

CoolNext ==
  \/ \E f \in frames : CoolTick(f)
  \/ CoolRestart
  \/ CoolRelease

SpecCooling == CoolInit /\ [][CoolNext]_vars

(***************************************************************************)
(* A drag of a frozen layout: the frames run until the heat is zero, then  *)
(* the user presses a node (pinNode(id)), moves it (moveNode) and lets go  *)
(* (pinNode(null)), while the frames go on.                                *)
(***************************************************************************)
ThawDown(id) ==
  /\ alphaRef = 0
  /\ pinnedRef = 0
  /\ pinNode(id)
  /\ UNCHANGED <<cooled, steps, viewVars>>

ThawMove(id, point) ==
  /\ pinnedRef = id
  /\ moveNode(id, point)
  /\ UNCHANGED <<cooled, steps, viewVars>>

ThawUp ==
  /\ pinnedRef # 0
  /\ pinNode(0)
  /\ cooled' = 0
  /\ UNCHANGED <<steps, viewVars>>

ThawNext ==
  \/ \E f \in frames : CoolTick(f)
  \/ \E id \in DragIds : ThawDown(id)
  \/ \E id \in DragIds, point \in DragPoints : ThawMove(id, point)
  \/ ThawUp

SpecThaw == CoolInit /\ [][ThawNext]_vars

(***************************************************************************)
(* GraphView's pointer, wheel and button handlers.  A handler is the       *)
(* closure of the last render: it reads draggingNode, panStart and         *)
(* transform as they were then (captured); setTransform with a function    *)
(* reads the state itself.  The re-render a state change asks for is a     *)
(* step of its own (ViewRender).  The container's top left corner is the   *)
(* origin of the pointer coordinates (rect.left = rect.top = 0).           *)
(***************************************************************************)
SCALE_MIN == 250

SCALE_MAX == 4000

WHEEL_IN == <<110, 100>>

WHEEL_OUT == <<91, 100>>

BUTTON_IN == <<125, 100>>

BUTTON_OUT == <<80, 100>>

PointerPoints == {<<100, 150>>, <<300, 200>>}

WheelDeltas == {WHEEL_IN, WHEEL_OUT}

MaxViewSteps == 3

MaxViewFrames == 2

\* toSVG(clientX, clientY) under the transform t
toSVG(t, p) ==
  <<divT((p[1] * Unit - t.x) * 1000, t.scale), divT((p[2] * Unit - t.y) * 1000, t.scale)>>

clampScale(v) ==
  IF v < SCALE_MIN THEN SCALE_MIN ELSE IF v > SCALE_MAX THEN SCALE_MAX ELSE v

\* the transform handleWheel sets
wheelTransform(t, p, delta) ==
  LET newScale == clampScale(scale(t.scale, delta))
      mx == p[1] * Unit
      my == p[2] * Unit
  IN [scale |-> newScale,
      x |-> mx - divT((mx - t.x) * newScale, t.scale),
      y |-> my - divT((my - t.y) * newScale, t.scale)]

ViewInit ==
  /\ SimInit
  /\ nodeIds = <<1, 2>>
  /\ edges = <<E_HALF>>

\* the browser calls the pending frame
ViewTick(f) ==
  /\ handles < MaxViewFrames
  /\ tick(f)
  /\ UNCHANGED <<steps, cooled, viewVars>>

\* GraphView renders again with the same props: the handlers are created
\* anew and close over the current state
ViewRender ==
  /\ mounted
  /\ captured' = closure(draggingNode, panStart, transform, positions, nodeIds)
  /\ last' = "render"
  /\ UNCHANGED <<inferVars, serverVars, fnVars, mounted, nodeIds, edges, width, height,
                 nodesRef, pinnedRef, alphaRef, rafRef, frames, handles, positions, drawn,
                 lastSet, dropped, steps, cooled, transform, panStart, draggingNode,
                 selectedNoteId, pointer, pressed>>

\* what every handler of the user leaves alone besides the simulation
viewEvent(p) ==
  /\ mounted
  /\ steps < MaxViewSteps
  /\ steps' = steps + 1
  /\ pointer' = p
  /\ UNCHANGED <<captured, cooled>>

simUntouched ==
  UNCHANGED <<inferVars, serverVars, fnVars, mounted, nodeIds, edges, width, height, nodesRef,
              pinnedRef, alphaRef, rafRef, frames, handles, positions, drawn, lastSet, dropped>>

\* handleNodePointerDown on a drawn node
NodePointerDown(id, p) ==
  /\ id \in captured.drawnNodes
  /\ viewEvent(p)
  /\ pinNode(id)
  /\ draggingNode' = id
  /\ pressed' = id
  /\ UNCHANGED <<transform, panStart, selectedNoteId>>

\* handleSvgPointerDown on the background
SvgPointerDown(p) ==
  /\ viewEvent(p)
  /\ panStart' = [px |-> p[1], py |-> p[2],
                  ox |-> captured.transform.x, oy |-> captured.transform.y]
  /\ last' = "pan-start"
  /\ simUntouched
  /\ UNCHANGED <<transform, draggingNode, selectedNoteId, pressed>>

\* handleSvgPointerMove
SvgPointerMove(p) ==
  /\ viewEvent(p)
  /\ IF captured.draggingNode # 0
     THEN /\ moveNode(captured.draggingNode, toSVG(captured.transform, p))
          /\ UNCHANGED transform
     ELSE /\ transform' = IF captured.panStart # <<>>
                          THEN [transform EXCEPT
                                  !.x = captured.panStart.ox + (p[1] - captured.panStart.px) * Unit,
                                  !.y = captured.panStart.oy + (p[2] - captured.panStart.py) * Unit]
                          ELSE transform
          /\ last' = "pan"
          /\ simUntouched
  /\ UNCHANGED <<panStart, draggingNode, selectedNoteId, pressed>>

\* handleSvgPointerUp, for pointer up and pointer leave
SvgPointerUp(p) ==
  /\ viewEvent(p)
  /\ IF captured.draggingNode # 0
     THEN /\ pinNode(0)
          /\ draggingNode' = 0
     ELSE /\ last' = "up"
          /\ simUntouched
          /\ UNCHANGED draggingNode
  /\ panStart' = <<>>
  /\ pressed' = 0
  /\ UNCHANGED <<transform, selectedNoteId>>

\* handleWheel
Wheel(p, delta) ==
  /\ viewEvent(p)
  /\ transform' = wheelTransform(transform, p, delta)
  /\ last' = "wheel"
  /\ simUntouched
  /\ UNCHANGED <<panStart, draggingNode, selectedNoteId, pressed>>

\* the zoom buttons
ZoomButton(factor) ==
  /\ viewEvent(pointer)
  /\ transform' = [transform EXCEPT !.scale = clampScale(scale(transform.scale, factor))]
  /\ last' = "zoom"
  /\ simUntouched
  /\ UNCHANGED <<panStart, draggingNode, selectedNoteId, pressed>>

ResetView ==
  /\ viewEvent(pointer)
  /\ transform' = IDENTITY
  /\ last' = "reset"
  /\ simUntouched
  /\ UNCHANGED <<panStart, draggingNode, selectedNoteId, pressed>>

\* a click that also reheats the simulation
NodeClick_reheats(id) ==
  /\ id \in captured.drawnNodes
  /\ viewEvent(pointer)
  /\ selectedNoteId' = id
  /\ last' = "select"
  /\ alphaRef' = MAX_ALPHA
  /\ UNCHANGED <<inferVars, serverVars, fnVars, mounted, nodeIds, edges, width, height, nodesRef,
                 pinnedRef, rafRef, frames, handles, positions, drawn, lastSet, dropped>>
  /\ UNCHANGED <<transform, panStart, draggingNode, pressed>>

\* handleNodeClick: onSelectNote(noteId), the widget's handleSelectNote
NodeClick(id) ==
  /\ id \in captured.drawnNodes
  /\ viewEvent(pointer)
  /\ selectedNoteId' = id
  /\ last' = "select"
  /\ simUntouched
  /\ UNCHANGED <<transform, panStart, draggingNode, pressed>>

ViewNext ==
  \/ \E f \in frames : ViewTick(f)
  \/ ViewRender
  \/ \E id \in DragIds, p \in PointerPoints : NodePointerDown(id, p)
  \/ \E p \in PointerPoints : SvgPointerDown(p)
  \/ \E p \in PointerPoints : SvgPointerMove(p)
  \/ \E p \in PointerPoints : SvgPointerUp(p)
  \/ \E p \in PointerPoints, delta \in WheelDeltas : Wheel(p, delta)
  \/ \E factor \in {BUTTON_IN, BUTTON_OUT} : ZoomButton(factor)
  \/ ResetView
  \/ \E id \in DragIds : NodeClick(id)

SpecView == ViewInit /\ [][ViewNext]_vars

(***************************************************************************)
(* computeConnections on pairs of notes that reach the keyword tier, among *)
(* them notes with so many keywords that the overlap ratio falls below     *)
(* 0.03.                                                                   *)
(***************************************************************************)
\* 33 keywords met nowhere else, then "qubits"
C_LONG ==
  <<"k", "a", "a", "x", " ", "k", "a", "b", "x", " ", "k", "a",
    "c", "x", " ", "k", "a", "d", "x", " ", "k", "a", "e", "x",
    " ", "k", "a", "f", "x", " ", "k", "b", "a", "x", " ", "k",
    "b", "b", "x", " ", "k", "b", "c", "x", " ", "k", "b", "d",
    "x", " ", "k", "b", "e", "x", " ", "k", "b", "f", "x", " ",
    "k", "c", "a", "x", " ", "k", "c", "b", "x", " ", "k", "c",
    "c", "x", " ", "k", "c", "d", "x", " ", "k", "c", "e", "x",
    " ", "k", "c", "f", "x", " ", "k", "d", "a", "x", " ", "k",
    "d", "b", "x", " ", "k", "d", "c", "x", " ", "k", "d", "d",
    "x", " ", "k", "d", "e", "x", " ", "k", "d", "f", "x", " ",
    "k", "e", "a", "x", " ", "k", "e", "b", "x", " ", "k", "e",
    "c", "x", " ", "k", "e", "d", "x", " ", "k", "e", "e", "x",
    " ", "k", "e", "f", "x", " ", "k", "f", "a", "x", " ", "k",
    "f", "b", "x", " ", "k", "f", "c", "x", " ", "q", "u", "b",
    "i", "t", "s">>

Tier3Contents == {C_PLAIN, C_GATES, C_LONG}

Tier3TagLists == {<<>>, << <<"a", "i">> >>, << <<"d", "b">> >>}

Tier3Init ==
  /\ ViewIdle
  /\ ServerIdle
  /\ SimIdle
  /\ FnIdle
  /\ \E x \in Titles, y \in Titles, cx \in Tier3Contents, cy \in Tier3Contents,
        tx \in Tier3TagLists, ty \in Tier3TagLists :
        inferNotes = <<newNote(1, x, cx, tx, 1), newNote(2, y, cy, ty, 2)>>
  /\ inferOut = <<>>
  /\ inferPrev = <<>>
  /\ inferClient = <<>>
  /\ inferPc = "input"

SpecTier3 == Tier3Init /\ [][InferNext]_vars

(***************************************************************************)
(* The widget and the server on the same note list: handleAddNote and      *)
(* handleDeleteNote call computeConnectionsClient on the list the server   *)
(* will answer with.                                                       *)
(***************************************************************************)
ClientNoteShapes ==
  { [title |-> T_QUANTUM, content |-> C_SUPER, tags |-> << <<"a", "i">> >>],
    [title |-> T_BASICS,  content |-> C_GATES, tags |-> << <<"a", "i">>, <<"m", "l">> >>],
    [title |-> T_INTRO,   content |-> C_PLAIN, tags |-> <<>>],
    [title |-> T_QUANTUM, content |-> C_GATES, tags |-> << <<"#", "m">> >>],
    [title |-> T_BASICS,  content |-> C_SUPER, tags |-> <<>>],
    [title |-> T_INTRO,   content |-> C_PLAIN, tags |-> << <<"d", "b">> >>] }

\* ids by position: ascending, descending, repeated
ClientIdOrders == {[i \in 1..8 |-> i], [i \in 1..8 |-> 9 - i], [i \in 1..8 |-> (i + 1) \div 2]}

MaxClientNotes == 3

ClientInit ==
  /\ ViewIdle
  /\ ServerIdle
  /\ SimIdle
  /\ FnIdle
  /\ \E n \in 0..MaxClientNotes :
       \E shapes \in [1..n -> ClientNoteShapes], ids \in ClientIdOrders :
          inferNotes = [i \in 1..n |->
                          newNote(ids[i], shapes[i].title, shapes[i].content, shapes[i].tags, i)]
  /\ inferOut = <<>>
  /\ inferPrev = <<>>
  /\ inferClient = <<>>
  /\ inferPc = "input"

InferBoth ==
  /\ inferPc = "input"
  /\ inferOut' = computeConnections(inferNotes)
  /\ inferClient' = computeConnectionsClient(inferNotes)
  /\ inferPc' = "both"
  /\ UNCHANGED <<inferNotes, inferPrev, serverVars, simVars, fnVars, viewVars>>

ClientNext == InferBoth

SpecClient == ClientInit /\ [][ClientNext]_vars

(***************************************************************************)
(* Tag normalisation on its own: the tags argument of add-note and of the  *)
(* widget's cleanTags.                                                     *)
(***************************************************************************)
TagChars == {" ", "#", "a", "A"}

MaxTagLen == 3

RECURSIVE stringsUpTo(_, _)
stringsUpTo(chars, n) ==
  IF n = 0 THEN {<<>>}
  ELSE LET shorter == stringsUpTo(chars, n - 1)
       IN shorter \cup {Append(str, c) : str \in shorter, c \in chars}

TagInputs ==
  {<<t>> : t \in stringsUpTo(TagChars, MaxTagLen)}
    \cup {<<t, u>> : t, u \in stringsUpTo(TagChars, 1)}
    \cup RawTagLists

TagsInit ==
  /\ ViewIdle
  /\ ServerIdle
  /\ InferIdle
  /\ SimIdle
  /\ tagsIn \in TagInputs
  /\ tagsOut = <<>>
  /\ widgetTagsOut = <<>>
  /\ tagsPc = "input"
  /\ textIn = <<>>
  /\ keywordsOut = <<>>
  /\ textPc = "idle"

NormaliseTags ==
  /\ tagsPc = "input"
  /\ tagsOut' = cleanTags(tagsIn)
  /\ widgetTagsOut' = widgetCleanTags(tagsIn)
  /\ tagsPc' = "done"
  /\ UNCHANGED <<tagsIn, textIn, keywordsOut, textPc, inferVars, serverVars, simVars, viewVars>>

TagsNext == NormaliseTags

SpecTags == TagsInit /\ [][TagsNext]_vars

(***************************************************************************)
(* extractKeywords on its own: the text is made of up to MaxWords words,   *)
(* each followed by a separator.                                           *)
(***************************************************************************)
TextWords ==
  { <<"t", "h", "a", "t">>, <<"D", "a", "t", "a">>, <<"c", "a", "t">>,
    <<"a", "_", "b", "1">>, <<>> }

TextSeparators == { <<" ">>, <<"-", ",">>, <<>> }

MaxWords == 3

RECURSIVE textsOf(_)
textsOf(n) ==
  IF n = 0 THEN {<<>>}
  ELSE LET shorter == textsOf(n - 1)
       IN shorter \cup {t \o w \o sep : t \in shorter, w \in TextWords, sep \in TextSeparators}

KeywordsInit ==
  /\ ViewIdle
  /\ ServerIdle
  /\ InferIdle
  /\ SimIdle
  /\ tagsIn = <<>>
  /\ tagsOut = <<>>
  /\ widgetTagsOut = <<>>
  /\ tagsPc = "idle"
  /\ textIn \in textsOf(MaxWords)
  /\ keywordsOut = <<>>
  /\ textPc = "input"

ExtractKeywords ==
  /\ textPc = "input"
  /\ keywordsOut' = extractKeywords(textIn)
  /\ textPc' = "done"
  /\ UNCHANGED <<textIn, tagsIn, tagsOut, widgetTagsOut, tagsPc, inferVars, serverVars, simVars, viewVars>>

KeywordsNext == ExtractKeywords

SpecKeywords == KeywordsInit /\ [][KeywordsNext]_vars

(***************************************************************************)
(* Properties                                                              *)
(***************************************************************************)
startsWith(s, prefix) ==
  Len(s) >= Len(prefix) /\ SubSeq(s, 1, Len(prefix)) = prefix

idsOf(list) == {list[i].id : i \in 1..Len(list)}

hasEqualTag(a, b) == Range(a.tags) \cap Range(b.tags) # {}

hasSubstringTag(a, b) ==
  \E at \in Range(a.tags), bt \in Range(b.tags) : strIncludes(at, bt) \/ strIncludes(bt, at)

isTagConnection(c) == startsWith(c.reason, STR_SHARED_TAGS) \/ c.reason = STR_RELATED_TAGS

isKeywordConnection(c) == startsWith(c.reason, STR_RELATED_CONCEPTS)

hasGraph(r) == r.tool \in {"add-note", "delete-note", "view-knowledge-graph"}

\* C1: every connection of a computed result has 0.35 <= strength <= 1.0 when
\* a tag tier produced it and 0 < strength <= 0.9 when the keyword tier did
C1_StrengthBounds ==
  inferPc \in {"computed", "swapped"} =>
    \A i \in 1..Len(inferOut) :
       LET c == inferOut[i]
       IN /\ isTagConnection(c) =>
               fracLE(Frac(35, 100), c.strength) /\ fracLE(c.strength, Frac(1, 1))
          /\ isKeywordConnection(c) =>
               fracLT(Frac(0, 1), c.strength) /\ fracLE(c.strength, Frac(9, 10))

\* C2: the two orders of a pair of notes give the same connection: none both
\* times, or one over the same unordered id pair with equal strength and reason
C2_Symmetry ==
  inferPc = "swapped" =>
    \/ inferPrev = <<>> /\ inferOut = <<>>
    \/ /\ Len(inferPrev) = 1 /\ Len(inferOut) = 1
       /\ {inferPrev[1].source, inferPrev[1].target}
            = {inferOut[1].source, inferOut[1].target}
       /\ inferPrev[1].strength = inferOut[1].strength
       /\ inferPrev[1].reason = inferOut[1].reason

\* C3: first matching tier wins: an equal tag gives a "Shared tags: ..."
\* connection and never the values of the other tiers; a tag-substring relation
\* without an equal tag gives exactly 0.35 and "Related tags"; a keyword
\* connection appears only when neither tag tier matches
C3_TierOrder ==
  inferPc \in {"computed", "swapped"} =>
    LET a == inferNotes[1]
        b == inferNotes[2]
    IN /\ hasEqualTag(a, b) =>
            /\ Len(inferOut) = 1
            /\ startsWith(inferOut[1].reason, STR_SHARED_TAGS)
            /\ inferOut[1].reason # STR_RELATED_TAGS
            /\ ~isKeywordConnection(inferOut[1])
            /\ inferOut[1].strength # Frac(35, 100)
       /\ (~hasEqualTag(a, b) /\ hasSubstringTag(a, b)) =>
            /\ Len(inferOut) = 1
            /\ inferOut[1].strength = Frac(35, 100)
            /\ inferOut[1].reason = STR_RELATED_TAGS
       /\ \A i \in 1..Len(inferOut) :
            isKeywordConnection(inferOut[i]) =>
              ~hasEqualTag(a, b) /\ ~hasSubstringTag(a, b)

\* a computed pair with a tag-substring relation, no equal tag, and shared
\* keywords that the keyword tier would have matched
C3_Witness ==
  /\ inferPc = "computed"
  /\ ~hasEqualTag(inferNotes[1], inferNotes[2])
  /\ hasSubstringTag(inferNotes[1], inferNotes[2])
  /\ keywordConnection(inferNotes[1], inferNotes[2]) # <<>>
  /\ inferOut[1].reason = STR_RELATED_TAGS

\* C4: the connections of a response over notes with pairwise distinct ids
\* hold at most one connection per unordered id pair and none from a note to
\* itself
C4_OnePerPair ==
  hasGraph(resp) =>
    /\ \A i, k \in 1..Len(resp.connections) :
         i # k => {resp.connections[i].source, resp.connections[i].target}
                    # {resp.connections[k].source, resp.connections[k].target}
    /\ \A i \in 1..Len(resp.connections) :
         resp.connections[i].source # resp.connections[i].target

\* three notes, every pair of them connected
C4_Witness ==
  /\ hasGraph(resp)
  /\ Len(resp.notes) = 3
  /\ Len(resp.connections) = 3

\* C6: delete-note of a cached id answers deleted = true with the notes minus
\* that note and exactly the previous connections that do not touch it, in
\* their previous order; of an id not in the cache it answers deleted = false
\* and leaves notes and connections as they were
C6_DeleteFrame ==
  [][\A id \in 1..MaxList :
       (call'.tool = "delete-note" /\ call'.id = id) =>
         IF id \in idsOf(notes)
         THEN /\ resp'.deleted
              /\ notes' = SelectSeq(notes, LAMBDA n : n.id # id)
              /\ resp'.notes = notes'
              /\ resp'.connections
                   = SelectSeq(computeConnections(notes),
                               LAMBDA c : c.source # id /\ c.target # id)
         ELSE /\ ~resp'.deleted
              /\ notes' = notes
              /\ resp'.notes = notes
              /\ resp'.connections = computeConnections(notes)]_vars

\* a delete that left three notes and at least two connections
C6_Witness ==
  /\ call.tool = "delete-note"
  /\ resp.deleted
  /\ Len(resp.notes) = 3
  /\ Len(resp.connections) >= 2

\* C9: the connections of an add-note, delete-note or view-knowledge-graph
\* response are computeConnections of the notes of that response, and each
\* end of each connection is the id of one of those notes
C9_ResponseConsistent ==
  (hasGraph(resp) /\ ~resp.isError) =>
    /\ resp.connections = computeConnections(resp.notes)
    /\ \A i \in 1..Len(resp.connections) :
         /\ resp.connections[i].source \in idsOf(resp.notes)
         /\ resp.connections[i].target \in idsOf(resp.notes)

\* a delete-note response that removed a note and still has a connection
C9_Witness ==
  /\ resp.tool = "delete-note"
  /\ resp.deleted
  /\ Len(resp.connections) >= 1

\* C10: a store error fails no call: a failed load leaves the cache as it was
\* and the call answers from it; a failed insert or delete still answers
\* normally from the cache
C10_StoreErrorTolerated ==
  [][(supabase /\ ~call'.storeOk) =>
       /\ ~resp'.isError
       /\ call'.tool \in {"search-notes", "view-knowledge-graph"} => notes' = notes
       /\ call'.tool = "view-knowledge-graph" =>
            resp'.notes = notes /\ resp'.connections = computeConnections(notes)
       /\ call'.tool = "search-notes" =>
            resp'.total = Len(resp'.results)
            /\ \A i \in 1..Len(resp'.results) : resp'.results[i].id \in idsOf(notes)
       /\ call'.tool = "add-note" =>
            /\ resp'.notes = Append(notes, resp'.note[1])
            /\ resp'.connections = computeConnections(resp'.notes)
       /\ call'.tool = "delete-note" =>
            /\ resp'.notes = SelectSeq(notes, LAMBDA n : n.id # call'.id)
            /\ resp'.connections = computeConnections(resp'.notes)]_vars

\* a view answered from a cache that differs from the table, after a failed load
C10_Witness ==
  /\ supabase
  /\ call.tool = "view-knowledge-graph"
  /\ ~call.storeOk
  /\ ~resp.isError
  /\ resp.notes # <<>>
  /\ idsOf(resp.notes) # {r.id : r \in table}

simulatedIds == {nodesRef[k].id : k \in 1..Len(nodesRef)}

\* the pinned node is simulated and a position was written to it
pinHolds == pinnedRef # 0 /\ lastSet # <<>> /\ findNode(nodesRef, pinnedRef) # 0

pinnedAt == LET n == nodesRef[findNode(nodesRef, pinnedRef)] IN <<n.x, n.y>>

\* C7 as stated: while a node id is pinned, after every tick the position of
\* that node is the value last written by moveNode, or its position at pin
\* time when moveNode was not called.
C7_PinnedStaysPut ==
  (last = "tick" /\ pinHolds) => pinnedAt = lastSet

\* C7, amended: while a node id is pinned and its node has not left the
\* simulation since the position was written, after every tick the position
\* of that node is the value last written by moveNode, or its position at
\* pin time when moveNode was not called.
C7_PinnedStaysPutWhileSimulated ==
  (last = "tick" /\ pinHolds /\ ~dropped) => pinnedAt = lastSet

\* a tick with heat has just moved another node while the pinned node, tied
\* to it by an edge, stays where moveNode put it
C7_Witness ==
  /\ last = "tick"
  /\ pinHolds
  /\ ~dropped
  /\ alphaRef > 0
  /\ edges # <<>>
  /\ lastSet \in DragPoints
  /\ \E k \in 1..Len(nodesRef) : nodesRef[k].id # pinnedRef /\ nodesRef[k].vx # 0

\* C8: when the node ids or the non-zero size change, and when restart is
\* called, every simulated node whose id is still supplied keeps its position
\* and velocity, every added node has zero velocity, and the simulated ids
\* are then the supplied ids, in their order.
C8_UpsertFrame ==
  [][(last' \in {"props", "resize", "restart"} /\ steps' # steps /\ width' # 0 /\ height' # 0) =>
       /\ \A k \in 1..Len(nodesRef) :
            (\E i \in 1..Len(nodeIds') : nodeIds'[i] = nodesRef[k].id) =>
              /\ findNode(nodesRef', nodesRef[k].id) # 0
              /\ nodesRef'[findNode(nodesRef', nodesRef[k].id)] = nodesRef[k]
       /\ \A k \in 1..Len(nodesRef') :
            findNode(nodesRef, nodesRef'[k].id) = 0 =>
              nodesRef'[k].vx = 0 /\ nodesRef'[k].vy = 0
       /\ [k \in 1..Len(nodesRef') |-> nodesRef'[k].id] = nodeIds']_vars

\* the ids changed from 1, 2 to 2, 3 after a tick: node 2 kept its velocity,
\* node 3 was added at rest, node 1 is gone
C8_Witness ==
  /\ last = "props"
  /\ width # 0 /\ height # 0
  /\ nodeIds = <<2, 3>>
  /\ simulatedIds = {2, 3}
  /\ nodesRef[1].vx # 0
  /\ nodesRef[2].vx = 0 /\ nodesRef[2].vy = 0
  /\ 2 \in DOMAIN positions
  /\ 3 \notin DOMAIN positions

\* C11: with Supabase configured, after every completed add-note,
\* delete-note and loadAllNotes (search-notes, view-knowledge-graph) the
\* cache holds exactly the notes stored in the table.
C11_CacheInSync ==
  (supabase /\ call.tool # "none") =>
    {notes[i] : i \in 1..Len(notes)} = {rowToNote(r) : r \in table}

isLowerCase(str) == \A i \in 1..Len(str) : str[i] \notin UpperSet

\* non-empty, lower-case, no leading '#', no white space at either end
isNormalTag(t) ==
  /\ t # <<>>
  /\ isLowerCase(t)
  /\ t[1] # "#"
  /\ t[1] \notin WhiteSpace
  /\ t[Len(t)] \notin WhiteSpace

allNormal(tags) == \A i \in 1..Len(tags) : isNormalTag(tags[i])

\* C12: every tag the normalisation of add-note and of the widget returns is
\* non-empty, lower-case, without leading '#' and without white space at
\* either end, and a list of such tags is returned unchanged.
C12_TagsNormalised ==
  tagsPc = "done" =>
    /\ allNormal(tagsOut)
    /\ allNormal(widgetTagsOut)
    /\ allNormal(tagsIn) => (tagsOut = tagsIn /\ widgetTagsOut = tagsIn)

\* C13: for every note list computeConnectionsClient returns the connections
\* of the server's computeConnections, in the same order, with the same
\* source, target, strength and reason.
C13_ClientMirrorsServer ==
  inferPc = "both" => inferClient = inferOut

\* three notes with a tag connection, a substring connection and a keyword
\* connection among them, computed by both
C13_Witness ==
  /\ inferPc = "both"
  /\ Len(inferOut) = 3
  /\ \E i, j, k \in 1..3 :
       /\ startsWith(inferOut[i].reason, STR_SHARED_TAGS)
       /\ inferOut[j].reason = STR_RELATED_TAGS
       /\ startsWith(inferOut[k].reason, STR_RELATED_CONCEPTS)
  /\ inferClient = inferOut

\* C14: at any moment at most one tick is pending, it is the one rafRef
\* names and it was scheduled by the loop effect of the latest render (its
\* closure holds the current edge endpoints and size); none is pending at a
\* zero size, and none after the view is unmounted.
C14_HandleReleased ==
  /\ Cardinality(frames) <= 1
  /\ \A f \in frames :
       /\ f.handle = rafRef
       /\ f.width = width
       /\ f.height = height
       /\ endpoints(f.edges) = endpoints(edges)
  /\ (width = 0 \/ height = 0) => frames = {}
  /\ ~mounted => frames = {}

\* the view was unmounted after the loop had been scheduled three times or
\* more (by ticks or by re-runs of the loop effect), and nothing is pending
C14_Witness ==
  /\ ~mounted
  /\ last = "unmount"
  /\ handles >= 3
  /\ width # 0
  /\ frames = {}

\* the edges of a list whose two ends are simulated
liveEdges(edgeList, sim) ==
  SelectSeq(edgeList, LAMBDA e : findNode(sim, e.source) # 0 /\ findNode(sim, e.target) # 0)

C16_SharedTagStrength ==
  (inferPc = "computed" /\ hasEqualTag(inferNotes[1], inferNotes[2])) =>
    LET a == inferNotes[1]
        b == inferNotes[2]
        S == Range(a.tags) \cap Range(b.tags)
        U == Range(a.tags) \cup Range(b.tags)
        once == newSet(SelectSeq(a.tags, LAMBDA t : t \in S))
    IN /\ Len(inferOut) = 1
       /\ inferOut[1].strength = mathMax(Frac(Cardinality(S), Cardinality(U)), Frac(4, 10))
       /\ inferOut[1].reason = STR_SHARED_TAGS \o join(hashTags(once), STR_COMMA)

\* the keywords of title and content of a note, as a set
keywordSet(n) == Range(extractKeywords(noteText(n)))

titleKeywordSet(n) == Range(extractKeywords(n.title))

\* C17: for a pair of notes matched by neither tag tier a connection is
\* emitted exactly when the keyword sets share a keyword and the ratio of
\* shared to all keywords is at least 0.03 or a shared keyword is a title
\* keyword of either note; its strength is min(6 * ratio, 0.9) and its
\* reason lists the first three shared keywords at most; otherwise the
\* result is empty.
C17_KeywordTier ==
  (inferPc \in {"computed", "swapped"}
     /\ ~hasEqualTag(inferNotes[1], inferNotes[2])
     /\ ~hasSubstringTag(inferNotes[1], inferNotes[2])) =>
    LET a == inferNotes[1]
        b == inferNotes[2]
        shared == keywordSet(a) \cap keywordSet(b)
        all == keywordSet(a) \cup keywordSet(b)
        jaccard == Frac(Cardinality(shared), Cardinality(all))
        inTitle == shared \cap (titleKeywordSet(a) \cup titleKeywordSet(b)) # {}
        listed == SelectSeq(extractKeywords(noteText(a)), LAMBDA w : w \in shared)
    IN IF shared # {} /\ (fracLE(Frac(3, 100), jaccard) \/ inTitle)
       THEN /\ Len(inferOut) = 1
            /\ inferOut[1].strength = mathMin(fracTimes(jaccard, 6), Frac(9, 10))
            /\ inferOut[1].reason = STR_RELATED_CONCEPTS \o join(firstThree(listed), STR_COMMA)
       ELSE inferOut = <<>>

\* a connection emitted on the title match alone: one shared keyword among
\* more than 33, found in a title
C17_Witness ==
  /\ inferPc = "computed"
  /\ inferNotes[1].tags = <<>>
  /\ Len(inferOut) = 1
  /\ fracLT(inferOut[1].strength, Frac(18, 100))
  /\ Cardinality(keywordSet(inferNotes[1]) \cup keywordSet(inferNotes[2])) > 33
  /\ Cardinality(keywordSet(inferNotes[1]) \cap keywordSet(inferNotes[2])) = 1

\* the maximal runs of word characters of a string
wordRuns(str) ==
  {SubSeq(str, i, j) : <<i, j>> \in
     {r \in (1..Len(str)) \X (1..Len(str)) :
        /\ r[1] <= r[2]
        /\ \A k \in r[1]..r[2] : isWordChar(str[k])
        /\ (r[1] = 1 \/ ~isWordChar(str[r[1] - 1]))
        /\ (r[2] = Len(str) \/ ~isWordChar(str[r[2] + 1]))}}

\* C18: extractKeywords returns a set (no word twice) of lower-case words
\* longer than 3 characters that are not stop words, namely every maximal
\* run of word characters of the lower-cased input that is such a word; the
\* empty string gives the empty set.
C18_KeywordsExtracted ==
  textPc = "done" =>
    /\ \A i \in 1..Len(keywordsOut) :
         /\ isLowerCase(keywordsOut[i])
         /\ Len(keywordsOut[i]) > 3
         /\ keywordsOut[i] \notin STOP_WORDS
    /\ Cardinality(Range(keywordsOut)) = Len(keywordsOut)
    /\ Range(keywordsOut) =
         {w \in wordRuns(toLowerCase(textIn)) : Len(w) > 3 /\ w \notin STOP_WORDS}
    /\ textIn = <<>> => keywordsOut = <<>>

\* a text with a stop word, a short word, an upper-case word and a word
\* with '_' and a digit gave the two keywords, lower-cased
C18_Witness ==
  /\ textPc = "done"
  /\ Range(keywordsOut) = {<<"d", "a", "t", "a">>, <<"a", "_", "b", "1">>}
  /\ strIncludes(textIn, <<"D", "a", "t", "a">>)
  /\ \/ strIncludes(textIn, <<"t", "h", "a", "t", " ">>)
     \/ strIncludes(textIn, <<"c", "a", "t", " ">>)

\* C19 as stated: every tick lowers the heat by one until it is zero, a tick
\* at zero heat leaves every node as it is, and MAX_ALPHA ticks after the
\* heat was last set it is zero.
C19_HeatCoolsEveryStep ==
  /\ [][(last' = "tick" /\ handles' # handles) =>
          /\ alphaRef' = (IF alphaRef > 0 THEN alphaRef - 1 ELSE 0)
          /\ (alphaRef = 0 => nodesRef' = nodesRef)]_vars
  /\ [](cooled >= MAX_ALPHA => alphaRef = 0)

\* C19 (amended): every tick of a simulation with at least one node lowers
\* the heat by one until it is zero, a tick at zero heat leaves every node's
\* position and velocity as it is, and with at least one node the heat is
\* zero MAX_ALPHA ticks after it was last set; a tick of a simulation
\* without nodes leaves the heat as it is.
C19_HeatCoolsWithNodes ==
  /\ [][(last' = "tick" /\ handles' # handles) =>
          IF Len(nodesRef) > 0
          THEN /\ alphaRef' = (IF alphaRef > 0 THEN alphaRef - 1 ELSE 0)
               /\ (alphaRef = 0 => nodesRef' = nodesRef)
          ELSE alphaRef' = alphaRef /\ nodesRef' = nodesRef]_vars
  /\ [](Len(nodesRef) > 0 /\ cooled >= MAX_ALPHA => alphaRef = 0)

\* a simulation with nodes has been ticked at zero heat, MAX_ALPHA ticks
\* and more after a restart
C19_Witness ==
  /\ Len(nodesRef) > 0
  /\ alphaRef = 0
  /\ cooled > MAX_ALPHA
  /\ cooled < handles - 1
  /\ last = "tick"

\* C20: a render with another set of node ids, a render with the same node
\* ids and another set of edges, and restart() each leave the heat at
\* MAX_ALPHA.
C20_Reheats ==
  [][(steps' # steps /\
        \/ last' = "props" /\ Range(nodeIds') # Range(nodeIds)
        \/ last' = "props" /\ Range(nodeIds') = Range(nodeIds) /\ Range(edges') # Range(edges)
        \/ last' = "restart")
      => alphaRef' = MAX_ALPHA]_vars

\* C21: right after pinNode(null) the heat is positive (RELEASE_ALPHA), also
\* when it was zero during the drag, and the tick that follows applies the
\* forces to every node (none is pinned) and lowers the heat by one.
C21_ReleaseReheats ==
  /\ []((last = "pin" /\ pinnedRef = 0) => (alphaRef = RELEASE_ALPHA /\ alphaRef > 0))
  /\ [][(last = "pin" /\ pinnedRef = 0 /\ last' = "tick" /\ Len(nodesRef) > 0) =>
          /\ alphaRef' = RELEASE_ALPHA - 1
          /\ \E f \in frames :
               nodesRef' = [k \in 1..Len(nodesRef) |->
                              tickNode(nodesRef, f.edges, f.width, f.height, 0, k)]]_vars

\* the layout had frozen, a node was dragged and let go, and the tick after
\* the release has set nodes in motion
C21_Witness ==
  /\ last = "tick"
  /\ pinnedRef = 0
  /\ handles > MAX_ALPHA + 1
  /\ cooled = 1
  /\ alphaRef = RELEASE_ALPHA - 1
  /\ \E k \in 1..Len(nodesRef) : nodesRef[k].vx # 0 \/ nodesRef[k].vy # 0

\* C22: every tick with heat works on the nodes of the node ids last given
\* to the simulation and computes its forces from the edges last given to
\* it, endpoints and strengths.
C22_TickReadsCurrent ==
  [][(last' = "tick" /\ steps' # steps /\ Len(nodesRef) > 0 /\ alphaRef > 0) =>
       /\ [k \in 1..Len(nodesRef) |-> nodesRef[k].id] = nodeIds
       /\ nodesRef' = [k \in 1..Len(nodesRef) |->
                         tickNode(nodesRef, edges, width, height, pinnedRef, k)]]_vars

\* the node lies in the padded rectangle of a w x h viewport
inPadded(n, w, h) ==
  /\ PAD * Unit <= n.x /\ n.x <= (w - PAD) * Unit
  /\ PAD * Unit <= n.y /\ n.y <= (h - PAD) * Unit

\* C23 as stated: after every tick with heat, whatever the width and height
\* (both above zero), every node that is not pinned lies in the padded
\* rectangle.
C23_Clamped ==
  [][(last' = "tick" /\ steps' # steps /\ alphaRef > 0) =>
       \A k \in 1..Len(nodesRef') :
         nodesRef'[k].id # pinnedRef => inPadded(nodesRef'[k], width, height)]_vars

\* C23 (amended): after every tick with heat every node that is not pinned
\* lies in the padded rectangle when the viewport is at least 2 * PAD wide
\* and high; in a dimension below 2 * PAD the padded rectangle is empty and
\* the coordinate is PAD.
C23_ClampedWhenRoom ==
  [][(last' = "tick" /\ steps' # steps /\ alphaRef > 0) =>
       \A k \in 1..Len(nodesRef') :
         nodesRef'[k].id # pinnedRef =>
           /\ (width >= 2 * PAD /\ height >= 2 * PAD) => inPadded(nodesRef'[k], width, height)
           /\ width < 2 * PAD => nodesRef'[k].x = PAD * Unit
           /\ height < 2 * PAD => nodesRef'[k].y = PAD * Unit]_vars

\* in a viewport with room a tick has stopped a node at the left or right
\* end of the padded rectangle
C23_Witness ==
  /\ last = "tick"
  /\ width >= 2 * PAD /\ height >= 2 * PAD
  /\ \E k \in 1..Len(nodesRef) :
       /\ nodesRef[k].id # pinnedRef
       /\ \/ nodesRef[k].x = PAD * Unit /\ nodesRef[k].vx < 0
          \/ nodesRef[k].x = (width - PAD) * Unit /\ nodesRef[k].vx > 0

\* C24: in the connections computed for a note list every connection of the
\* keyword tier is weaker than every connection of the shared-tag tier.
C24_KeywordWeakerThanTag ==
  inferPc = "both" =>
    \A i, j \in 1..Len(inferOut) :
      (isKeywordConnection(inferOut[i]) /\ startsWith(inferOut[j].reason, STR_SHARED_TAGS))
        => fracLT(inferOut[i].strength, inferOut[j].strength)

\* the position of node id in the simulation, <<>> when it has none
nodeAt(id) ==
  IF findNode(nodesRef, id) = 0 THEN <<>>
  ELSE <<nodesRef[findNode(nodesRef, id)].x, nodesRef[findNode(nodesRef, id)].y>>

\* C25: while the pointer is held down on a node exactly that node is
\* pinned, every pointer move then sets the node's position to
\* (pointer - translation) / scale, and when no pointer is held down on a
\* node (before any drag and after every release) no node is pinned.
C25_DragPinsMovesUnpins ==
  /\ [](pinnedRef = pressed)
  /\ [][(pressed # 0 /\ steps' # steps /\ last' \in {"move", "pan"})
          => nodeAt(pressed)' = toSVG(transform, pointer')]_vars

C27_PublishedIsCurrent ==
  [][(last' = "tick" /\ steps' # steps) =>
       /\ DOMAIN positions' = {nodesRef'[k].id : k \in 1..Len(nodesRef')}
       /\ \A k \in 1..Len(nodesRef') :
            positions'[nodesRef'[k].id] = <<nodesRef'[k].x, nodesRef'[k].y>>]_vars

\* C28: the notes list of an add-note response holds the note of its note
\* field, whatever loadAllNotes calls run at the same time.
C28_AddResponseHasNote ==
  resp.tool = "add-note" => resp.note[1] \in Range(resp.notes)

\* C29: a delete-note response with deleted = true holds neither the
\* deleted note in its notes list nor a connection from or to the deleted
\* id, whatever loadAllNotes calls run at the same time.
C29_DeleteResponseClean ==
  (resp.tool = "delete-note" /\ resp.deleted) =>
    /\ call.id \notin idsOf(resp.notes)
    /\ \A i \in 1..Len(resp.connections) :
         resp.connections[i].source # call.id /\ resp.connections[i].target # call.id

\* C30: unpinning never cools the simulation: the heat after pinNode(null)
\* is at least the heat before it, and the heat is always within
\* 0..MAX_ALPHA.
C30_UnpinNeverCools ==
  /\ [][(last' = "pin" /\ steps' # steps /\ pinnedRef' = 0) => alphaRef' >= alphaRef]_vars
  /\ [](alphaRef \in 0..MAX_ALPHA)

====
